---- MODULE Spec2Model ----
(***************************************************************************)
(* A model of graphsat: satisfiability of multi-hyper-graphs (MHGraphs)    *)
(* by local decomposition (graph_rewrite.decompose), checked against the   *)
(* exhaustive CNF enumeration of translation.mhgraph_pysat_satcheck.       *)
(*                                                                         *)
(* Representation.                                                         *)
(*   Vertex     positive integer                                           *)
(*   HEdge      non-empty set of Vertex                (frozenset)         *)
(*   MHGraph    function  HEdge -> multiplicity >= 1   (collections.Counter)*)
(*   tuple[HEdge, ...]   sequence of HEdge             (star, link, sphr)  *)
(*   Lit        non-zero integer or Bool, Clause = set of Lit,              *)
(*              Cnf = set of Clause                                         *)
(*   a Python bool returned by a function that may also raise is one of    *)
(*   the strings "True", "False"; a raised exception is "Raised".          *)
(***************************************************************************)
EXTENDS Integers, Sequences, FiniteSets, TLC

VARIABLES
    mhg_,             \* the MHGraph handed to the function under examination
    hyperbolic_only,  \* the flag handed to decompose
    seed,             \* hidden iteration state: Counter insertion order and random module
    pc,               \* name of the function applied last ("idle" before any)
    ret,              \* the value it returned
    cache,            \* the lru_cache of decompose
    calls,            \* number of calls of decompose made by the driver
    args              \* the arguments of a function that takes no MHGraph

vars == <<mhg_, hyperbolic_only, seed, pc, ret, cache, calls, args>>

(***************************************************************************)
(* Bounds of the model.                                                    *)
(***************************************************************************)
MaxVertex == 3
MaxEdges == 3
MaxSeed == 3
MaxCacheSize == 2
MaxCalls == 2
MaxVariable == 2
MaxLits == 4
MaxMorphismVertex == 2
MaxMorphismEdges == 3

Vertex == 1..MaxVertex
HEdge == (SUBSET Vertex) \ {{}}

(***************************************************************************)
(* Generic helpers for Python built-ins.                                   *)
(***************************************************************************)
Range(s) == {s[i] : i \in DOMAIN s}

Min(S) == CHOOSE x \in S : \A y \in S : x <= y

Max(S) == CHOOSE x \in S : \A y \in S : x >= y

\* sum(f[x] for x in S), for natural numbers f[x].
SumOver(f, S) == Cardinality(UNION {{<<x, c>> : c \in 1..f[x]} : x \in S})

RECURSIVE ProdOver(_, _)
ProdOver(f, S) ==
    IF S = {} THEN 1
    ELSE LET x == CHOOSE y \in S : TRUE IN f[x] * ProdOver(f, S \ {x})

RECURSIVE pow2(_)
pow2(n) == IF n = 0 THEN 1 ELSE 2 * pow2(n - 1)

RECURSIVE comb(_, _)
comb(n, k) ==
    IF k > n THEN 0
    ELSE IF k = 0 THEN 1
    ELSE (comb(n - 1, k - 1) * n) \div k

\* A local variable: value is computed once and body is evaluated at it.
Let(value, body(_)) == CHOOSE result \in {body(v) : v \in {value}} : TRUE

Bool(b) == IF b THEN "True" ELSE "False"

Raised == "Raised"

(***************************************************************************)
(* mhgraph.py                                                              *)
(***************************************************************************)
\* Position of a HEdge in the iteration order of a Counter's keys.
HEdgeKey(h) == SumOver([v \in h |-> pow2(v - 1)], h)

ordered_hedges(S) ==
    [i \in 1..Cardinality(S) |->
        CHOOSE h \in S : Cardinality({g \in S : HEdgeKey(g) < HEdgeKey(h)}) = i - 1]

Repeat(h, m) == [i \in 1..m |-> h]

\* Every key repeated as many times as its multiplicity, in the order of keys.
Flatten(mhg, keys) ==
    LET upto(j) == SumOver([i \in 1..j |-> mhg[keys[i]]], 1..j)
    IN [p \in 1..upto(Len(keys)) |->
           keys[CHOOSE j \in DOMAIN keys : upto(j - 1) < p /\ p <= upto(j)]]

\* The order in which a sequence is visited when that order is not fixed by
\* the value iterated over: a rotation by seed, reversed for the upper seeds.
shuffle(s) ==
    LET n == Len(s)
        r == seed % n
        rotated == [i \in 1..n |-> s[((i - 1 + r) % n) + 1]]
    IN IF n <= 1 THEN s
       ELSE IF (seed \div n) % 2 = 1 THEN [i \in 1..n |-> rotated[n + 1 - i]]
       ELSE rotated

\* Counter.items(): the keys in insertion order, which is not part of the
\* value of a MHGraph.
items(mhg) == Let(ordered_hedges(DOMAIN mhg), LAMBDA keys : shuffle(keys))

\* Counter.elements(): every HEdge repeated as many times as its multiplicity.
elements(mhg) == Let(items(mhg), LAMBDA keys : Flatten(mhg, keys))

\* mhgraph() raises ValueError on an empty collection.
mhgraph_raises(edge_collection) == edge_collection = << >>

\* Variant: the HEdges are kept as a set, every multiplicity is 1.
mhgraph_as_hgraph(edge_collection) == [h \in Range(edge_collection) |-> 1]

\* MHGraph(map(hedge, edge_collection)) on a non-empty tuple of HEdges.
mhgraph(edge_collection) ==
    [h \in Range(edge_collection) |->
        Cardinality({i \in DOMAIN edge_collection : edge_collection[i] = h})]

vertices(mhg) == UNION (DOMAIN mhg)

degree(vertex_instance, mhg) ==
    SumOver(mhg, {h \in DOMAIN mhg : vertex_instance \in h})

\* The iteration order of a set or dict of Vertices is left to the
\* implementation: it is ascending from the Vertex the state names as the
\* first one and wraps around, and plainly ascending when the state names
\* none.
first_in_iteration(S) ==
    Let(IF pc = "chosen" THEN args.first ELSE 0, LAMBDA first :
        IF \E x \in S : x >= first THEN Min({x \in S : x >= first})
        ELSE Min(S))

\* max(dict, key=...) returns the first maximal key of the iteration order.
pick_max_degree_vertex(mhg) ==
    Let([v \in vertices(mhg) |-> degree(v, mhg)], LAMBDA degree_sequence :
    Let(Max(Range(degree_sequence)), LAMBDA top :
        first_in_iteration({v \in vertices(mhg) : degree_sequence[v] = top})))

pick_min_degree_vertex(mhg) ==
    Let([v \in vertices(mhg) |-> degree(v, mhg)], LAMBDA vertex_degree_counter :
    Let(Min(Range(vertex_degree_counter)), LAMBDA low :
        first_in_iteration({v \in vertices(mhg) : vertex_degree_counter[v] = low})))

star(mhg, vertex_instance) ==
    SelectSeq(elements(mhg), LAMBDA h : vertex_instance \in h)

link(mhg, vertex_instance) ==
    Let(SelectSeq(star(mhg, vertex_instance), LAMBDA h : h # {vertex_instance}),
        LAMBDA proper : [i \in DOMAIN proper |-> proper[i] \ {vertex_instance}])

\* Variant: the membership test is inverted.
sphr_incident(mhg, vertex_instance) ==
    SelectSeq(elements(mhg), LAMBDA h : vertex_instance \in h)

sphr(mhg, vertex_instance) ==
    SelectSeq(elements(mhg), LAMBDA h : vertex_instance \notin h)

\* graph_union asserts that not both arguments are empty.
graph_union_raises(mhg1, mhg2) == mhg1 = << >> /\ mhg2 = << >>

\* On two tuples: mhgraph(mhg1 + mhg2).
graph_union(mhg1, mhg2) == Let(mhg1 \o mhg2, LAMBDA edge_collection : mhgraph(edge_collection))

(***************************************************************************)
(* cnf.py, prop.py, sat.py                                                 *)
(***************************************************************************)
\* A Lit is its value: a non-zero integer, or one of the two members of the
\* enum Bool, which are written as two integers that no Variable reaches
\* (Bool.__eq__ answers False against every int).
BoolFALSE == 1000

BoolTRUE == 1001

IsBool(value) == value \in {BoolFALSE, BoolTRUE}

neg(literal) ==
    IF literal = BoolTRUE THEN BoolFALSE
    ELSE IF literal = BoolFALSE THEN BoolTRUE
    ELSE 0 - literal

absolute_value(literal) ==
    IF IsBool(literal) THEN BoolTRUE
    ELSE IF literal < 0 THEN 0 - literal ELSE literal

lits(cnf_instance) == UNION cnf_instance

\* clause() raises ValueError on an empty collection and on the integer 0.
clause_raises(lit_collection) == lit_collection = {} \/ 0 \in lit_collection

\* cnf() raises ValueError on an empty collection and when clause() does.
cnf_raises(clause_collection) ==
    clause_collection = {} \/ \E c \in clause_collection : clause_raises(c)

\* list(collection): the members one after another, in the order the
\* collection iterates.
RECURSIVE list(_)
list(S) ==
    IF S = {} THEN << >>
    ELSE Let(CHOOSE x \in S : TRUE, LAMBDA x : <<x>> \o list(S \ {x}))

TRUE_CLAUSE == {BoolTRUE}

FALSE_CLAUSE == {BoolFALSE}

TRUE_CNF == {TRUE_CLAUSE}

FALSE_CNF == {FALSE_CLAUSE}

\* Variant: the clause is returned as soon as FALSE is dropped from it.
tautologically_reduce_clause_returns_early(clause_instance) ==
    IF BoolTRUE \in clause_instance THEN TRUE_CLAUSE
    ELSE IF clause_instance = {BoolFALSE} THEN FALSE_CLAUSE
    ELSE IF BoolFALSE \in clause_instance
    THEN {literal \in clause_instance : literal # BoolFALSE}
    ELSE IF {neg(literal) : literal \in clause_instance} \cap clause_instance # {}
    THEN TRUE_CLAUSE
    ELSE clause_instance

\* Variant: FALSE is never dropped from a clause.
tautologically_reduce_clause_keeps_false(clause_instance) ==
    IF BoolTRUE \in clause_instance THEN TRUE_CLAUSE
    ELSE IF clause_instance = {BoolFALSE} THEN FALSE_CLAUSE
    ELSE IF {neg(literal) : literal \in clause_instance} \cap clause_instance # {}
         THEN TRUE_CLAUSE
    ELSE clause_instance

tautologically_reduce_clause(clause_instance) ==
    IF BoolTRUE \in clause_instance THEN TRUE_CLAUSE
    ELSE IF clause_instance = {BoolFALSE} THEN FALSE_CLAUSE
    ELSE Let(IF BoolFALSE \in clause_instance
             THEN {literal \in clause_instance : literal # BoolFALSE}
             ELSE clause_instance, LAMBDA without_false :
             IF {neg(literal) : literal \in without_false} \cap without_false # {}
             THEN TRUE_CLAUSE
             ELSE without_false)

\* One call of tautologically_reduce_cnf: the Cnf returned, or the Cnf the
\* function calls itself on.
tautologically_reduce_cnf_pass(cnf_instance) ==
    Let({tautologically_reduce_clause(c) : c \in cnf_instance},
        LAMBDA clause_set_reduced :
            IF FALSE_CLAUSE \in clause_set_reduced
            THEN [ret |-> FALSE_CNF, recursive |-> FALSE]
            ELSE IF clause_set_reduced = TRUE_CNF
            THEN [ret |-> TRUE_CNF, recursive |-> FALSE]
            ELSE IF TRUE_CLAUSE \in clause_set_reduced
            THEN [ret |-> clause_set_reduced \ TRUE_CNF, recursive |-> TRUE]
            ELSE [ret |-> clause_set_reduced, recursive |-> FALSE])

RECURSIVE tautologically_reduce_cnf(_)
tautologically_reduce_cnf(cnf_instance) ==
    Let(tautologically_reduce_cnf_pass(cnf_instance), LAMBDA pass :
        IF pass.recursive THEN tautologically_reduce_cnf(pass.ret) ELSE pass.ret)

cnf_and_cnf(cnf1, cnf2) == cnf1 \cup cnf2

\* A Bool literal equals no Variable and no negated Variable (Bool.__eq__).
assign_variable_in_lit(literal, variable_instance, boolean) ==
    IF ~ IsBool(literal) /\ literal = variable_instance THEN boolean
    ELSE IF ~ IsBool(literal) /\ literal = 0 - variable_instance THEN neg(boolean)
    ELSE literal

assign_variable_in_clause(clause_instance, variable_instance, boolean) ==
    tautologically_reduce_clause(
        {assign_variable_in_lit(literal, variable_instance, boolean) :
            literal \in clause_instance})

assign_variable_in_cnf(cnf_instance, variable_instance, boolean) ==
    tautologically_reduce_cnf(
        {assign_variable_in_clause(clause_instance, variable_instance, boolean) :
            clause_instance \in cnf_instance})

\* Variant: the Cnf is returned as the loop leaves it.
RECURSIVE assign_without_reduction(_, _)
assign_without_reduction(cnf_instance, assignment) ==
    IF assignment = << >> THEN cnf_instance
    ELSE assign_without_reduction(
             assign_variable_in_cnf(cnf_instance, Head(assignment).variable,
                                    Head(assignment).boolean),
             Tail(assignment))

\* assignment: the items of the dict, in the order the loop visits them.
RECURSIVE assign(_, _)
assign(cnf_instance, assignment) ==
    IF assignment = << >> THEN tautologically_reduce_cnf(cnf_instance)
    ELSE assign(assign_variable_in_cnf(cnf_instance, Head(assignment).variable,
                                       Head(assignment).boolean),
                Tail(assignment))

\* An assignment is the set of variables it sets to TRUE.
satisfies(assignment, cnf_instance) ==
    \A clause_ \in cnf_instance :
        \E literal \in clause_ :
            IF literal > 0 THEN literal \in assignment
            ELSE absolute_value(literal) \notin assignment

\* Minisat22(cnf).solve(): is there a satisfying assignment.
cnf_pysat_satcheck(cnf_instance) ==
    LET variables == {absolute_value(l) : l \in lits(cnf_instance)}
    IN \E assignment \in SUBSET variables : satisfies(assignment, cnf_instance)

(***************************************************************************)
(* translation.py: Cnfs supported on a MHGraph                             *)
(***************************************************************************)
\* Variant: the negative literal is forgotten.
lits_from_vertex_positive(vertex) == <<vertex, vertex>>

lits_from_vertex(vertex) == <<vertex, neg(vertex)>>

\* it.product over the (positive, negative) pairs of the vertices of hedge:
\* the i-th clause takes the sign of each vertex from the bits of i - 1, the
\* first vertex of the hedge varying slowest.
clauses_from_hedge(hedge) ==
    LET k == Cardinality(hedge)
        position(v) == Cardinality({u \in hedge : u < v})
        side(i, v) == (((i - 1) \div pow2(k - 1 - position(v))) % 2) + 1
    IN [i \in 1..pow2(k) |-> {lits_from_vertex(v)[side(i, v)] : v \in hedge}]

\* Variant: it.combinations_with_replacement, a clause may be taken again.
RECURSIVE combinations_with_replacement(_, _)
combinations_with_replacement(pool, r) ==
    IF r = 0 THEN << {} >>
    ELSE IF pool = << >> THEN << >>
    ELSE LET with_head == combinations_with_replacement(pool, r - 1)
         IN [i \in DOMAIN with_head |-> {Head(pool)} \cup with_head[i]]
            \o combinations_with_replacement(Tail(pool), r)

\* it.combinations(pool, r): the r-subsets of pool in lexicographic order of
\* their positions, here already made sets (the cnf constructor).
RECURSIVE combinations(_, _)
combinations(pool, r) ==
    IF r = 0 THEN << {} >>
    ELSE IF Len(pool) < r THEN << >>
    ELSE LET with_head == combinations(Tail(pool), r - 1)
         IN [i \in DOMAIN with_head |-> {Head(pool)} \cup with_head[i]]
            \o combinations(Tail(pool), r)

\* it.combinations raises ValueError for a negative r; for r = 0 it yields
\* the empty tuple, on which the cnf constructor raises ValueError.
cnfs_from_hedge_raises(hedge, multiplicity) ==
    IF multiplicity < 0 THEN TRUE
    ELSE Let(combinations(clauses_from_hedge(hedge), multiplicity),
             LAMBDA clause_tuples :
                 \E i \in DOMAIN clause_tuples : cnf_raises(clause_tuples[i]))

cnfs_from_hedge(hedge, multiplicity) ==
    combinations(clauses_from_hedge(hedge), multiplicity)

\* mit.random_permutation: the sequence in an order drawn from the random
\* module.
random_permutation(s) == shuffle(s)

\* it.product of the per-HEdge Cnf iterators (last HEdge varying fastest),
\* each tuple of Cnfs united into one Cnf by frozenset.union.
RECURSIVE cnf_tuples(_, _)
cnf_tuples(mhgraph_instance, keys) ==
    IF keys = << >> THEN << {} >>
    ELSE LET first == cnfs_from_hedge(Head(keys), mhgraph_instance[Head(keys)])
             rest == cnf_tuples(mhgraph_instance, Tail(keys))
             n == Len(rest)
         IN [i \in 1..(Len(first) * n) |->
                first[((i - 1) \div n) + 1] \cup rest[((i - 1) % n) + 1]]

cnfs_from_mhgraph(mhgraph_instance, randomize) ==
    LET clause_frozensets == cnf_tuples(mhgraph_instance, items(mhgraph_instance))
    IN IF randomize THEN random_permutation(clause_frozensets)
       ELSE clause_frozensets

number_of_cnfs(mhgraph_instance) ==
    ProdOver([h \in DOMAIN mhgraph_instance |->
                 comb(pow2(Cardinality(h)), mhgraph_instance[h])],
             DOMAIN mhgraph_instance)

\* mhgraph_from_cnf raises ValueError on a Cnf that reduces to TRUE_CNF or
\* FALSE_CNF, and its assertion fails on a Bool left among the vertices.
mhgraph_from_cnf_raises(cnf_instance) ==
    Let(tautologically_reduce_cnf(cnf_instance), LAMBDA reduced_cnf :
        \/ reduced_cnf \in {TRUE_CNF, FALSE_CNF}
        \/ \E clause_instance \in reduced_cnf : \E literal \in clause_instance :
              IsBool(absolute_value(literal)))

\* Variant: the HEdges are collected in a set, which forgets how many
\* clauses share their variables.
mhgraph_from_cnf_set(cnf_instance) ==
    Let(list({{absolute_value(literal) : literal \in clause_instance} :
                 clause_instance \in tautologically_reduce_cnf(cnf_instance)}),
        LAMBDA hedges : mhgraph(hedges))

mhgraph_from_cnf(cnf_instance) ==
    Let(list(tautologically_reduce_cnf(cnf_instance)), LAMBDA clauses :
        mhgraph([i \in DOMAIN clauses |->
                    {absolute_value(literal) : literal \in clauses[i]}]))

\* Variant: a full hedge already counts as oversaturated.
is_oversaturated_or_full(mhg) ==
    \E hedge \in DOMAIN mhg : mhg[hedge] >= pow2(Cardinality(hedge))

is_oversaturated(mhg) ==
    \E hedge \in DOMAIN mhg : mhg[hedge] > pow2(Cardinality(hedge))

\* all(cnf_pysat_satcheck(cnf) for cnf in cnfs) if number else False
mhgraph_pysat_satcheck(mhgraph_instance, randomize) ==
    LET number == number_of_cnfs(mhgraph_instance)
        cnfs == cnfs_from_mhgraph(mhgraph_instance, randomize)
    IN IF number # 0
       THEN \A i \in DOMAIN cnfs : cnf_pysat_satcheck(cnfs[i])
       ELSE FALSE

(***************************************************************************)
(* translation.py: simplification at leaves and loops                      *)
(*                                                                         *)
(* A value of type bool | MHGraph is a record [kind |-> "bool", bool |-> b] *)
(* or [kind |-> "mhg", mhg |-> g]; [kind |-> "raised"] is an exception and  *)
(* [kind |-> "none"] is Python's None.                                     *)
(***************************************************************************)
AsBool(b) == [kind |-> "bool", bool |-> b]

AsMHGraph(g) == [kind |-> "mhg", mhg |-> g]

\* Variant: the degree test lets leaves through.
simplify_at_leaves_keeps_leaves(mhg) ==
    Let(pick_min_degree_vertex(mhg), LAMBDA leaf_vertex :
        IF degree(leaf_vertex, mhg) > 0 THEN AsMHGraph(mhg)
        ELSE Let(sphr(mhg, leaf_vertex), LAMBDA sphr_ :
                 IF sphr_ = << >> THEN AsBool(TRUE)
                 ELSE AsMHGraph(mhgraph(sphr_))))

simplify_at_leaves(mhg) ==
    Let(pick_min_degree_vertex(mhg), LAMBDA leaf_vertex :
        IF degree(leaf_vertex, mhg) > 1 THEN AsMHGraph(mhg)
        ELSE Let(sphr(mhg, leaf_vertex), LAMBDA sphr_ :
                 IF sphr_ = << >> THEN AsBool(TRUE)
                 ELSE AsMHGraph(mhgraph(sphr_))))

\* Variant: the pattern searched for is the triple loop (37)^3.
has_triple_loop(mhg) ==
    \E w \in vertices(mhg) : {w} \in DOMAIN mhg /\ 3 <= mhg[{w}]

\* subgraph_search of the double loop (37)^2 in mhg: the single vertex 37 is
\* mapped to a vertex w of mhg such that (w) has multiplicity at least 2.
has_double_loop(mhg) ==
    \E w \in vertices(mhg) : {w} \in DOMAIN mhg /\ 2 <= mhg[{w}]

\* The first looped vertex in the iteration order of vertices(mhg); 0 stands
\* for the False returned when there is none.
supports_single_loop(mhg) ==
    Let({vertex \in vertices(mhg) : {vertex} \in DOMAIN mhg}, LAMBDA loops :
        IF loops # {} THEN first_in_iteration(loops) ELSE 0)

simplify_at_loops(mhg) ==
    IF has_double_loop(mhg) THEN AsBool(FALSE)
    ELSE Let(supports_single_loop(mhg), LAMBDA vertex :
        IF vertex = 0 THEN AsMHGraph(mhg)
        ELSE Let(sphr(mhg, vertex), LAMBDA sphr_ :
             Let(link(mhg, vertex), LAMBDA link_ :
                 IF link_ = << >> /\ sphr_ = << >>
                 THEN IF Len(elements(mhg)) = 1 THEN AsBool(TRUE)
                      ELSE [kind |-> "raised"]
                 ELSE IF graph_union_raises(sphr_, link_) THEN [kind |-> "raised"]
                 ELSE AsMHGraph(graph_union(sphr_, link_)))))

\* One pass through the match statement: the value reached and whether the
\* function calls itself on it.
simplify_pass(mhg) ==
    Let(simplify_at_leaves(mhg), LAMBDA at_leaves :
        IF at_leaves.kind # "mhg" THEN [ret |-> at_leaves, recursive |-> FALSE]
        ELSE IF at_leaves.mhg # mhg THEN [ret |-> at_leaves, recursive |-> TRUE]
        ELSE Let(simplify_at_loops(mhg), LAMBDA at_loops :
                 IF at_loops.kind # "mhg" THEN [ret |-> at_loops, recursive |-> FALSE]
                 ELSE [ret |-> at_loops, recursive |-> at_loops.mhg # mhg]))

\* Variant: no recursive call after a simplification at loops.
simplify_once_at_loops(mhg) ==
    Let(simplify_at_leaves(mhg), LAMBDA at_leaves :
        IF at_leaves.kind # "mhg" THEN at_leaves
        ELSE IF at_leaves.mhg # mhg THEN simplify_at_loops(at_leaves.mhg)
        ELSE simplify_at_loops(mhg))

RECURSIVE simplify_rec(_)
simplify_rec(mhg) ==
    Let(simplify_pass(mhg), LAMBDA pass :
        IF pass.recursive THEN simplify_rec(pass.ret.mhg) ELSE pass.ret)

\* @logger.catch: an exception raised inside is logged and None is returned.
simplify_at_leaves_and_loops(mhg) ==
    Let(simplify_rec(mhg), LAMBDA mhg_simp :
        IF mhg_simp.kind = "raised" THEN [kind |-> "none"] ELSE mhg_simp)

(***************************************************************************)
(* functools.lru_cache around decompose.  A cache is a record               *)
(* [maxsize, entries]: entries is the sequence of [key, result] from the    *)
(* least to the most recently used.                                         *)
(***************************************************************************)
maxsize == 1024

EmptyCache(size) == [maxsize |-> size, entries |-> << >>]

make_key(mhg, flag) == <<mhg, flag>>

\* Variant: the keys are compared by their hash alone.
key_eq_hash_only(key1, key2) ==
    /\ DOMAIN key1[1] = DOMAIN key2[1]
    /\ key1[2] = key2[2]

\* dict lookup: same hash (MHGraph.__hash__, the keys only) and equal
\* (Counter.__eq__, the multiplicities as well).
key_eq(key1, key2) ==
    /\ DOMAIN key1[1] = DOMAIN key2[1]
    /\ key1 = key2

cache_get(c, key) == {i \in DOMAIN c.entries : key_eq(c.entries[i].key, key)}

\* A hit moves the entry to the most recently used end.
cache_hit(c, i) ==
    LET others == [j \in 1..(Len(c.entries) - 1) |->
                      IF j < i THEN c.entries[j] ELSE c.entries[j + 1]]
    IN [c EXCEPT !.entries = others \o <<c.entries[i]>>]

\* After a miss the result is stored, unless the key appeared meanwhile;
\* a full cache gives up its least recently used entry.
cache_put(c, key, result) ==
    IF c.maxsize = 0 \/ cache_get(c, key) # {} THEN c
    ELSE IF Len(c.entries) >= c.maxsize
         THEN [c EXCEPT !.entries = Tail(c.entries) \o <<[key |-> key, result |-> result]>>]
    ELSE [c EXCEPT !.entries = c.entries \o <<[key |-> key, result |-> result]>>]

(***************************************************************************)
(* graph_rewrite.py.  Every function that reaches decompose takes the       *)
(* cache and returns [ret, cache].                                          *)
(***************************************************************************)
Return(value, c) == [ret |-> value, cache |-> c]

\* Variant: cnfs_hyp2 is left an iterator, which the first scan uses up.
satcheck_entangled_iterator(cnfs_sphr, cnfs_hyp1, cnfs_hyp2) ==
    LET n1 == Len(cnfs_hyp1)
        x_sph(i) == cnfs_sphr[((i - 1) \div n1) + 1]
        x_hyp1(i) == cnfs_hyp1[((i - 1) % n1) + 1]
        unsat == {i \in 1..(Len(cnfs_sphr) * n1) :
                     ~ cnf_pysat_satcheck(cnf_and_cnf(x_sph(i), x_hyp1(i)))}
        first == Min(unsat)
    IN \/ unsat = {}
       \/ \A k \in DOMAIN cnfs_hyp2 :
             cnf_pysat_satcheck(cnf_and_cnf(x_sph(first), cnfs_hyp2[k]))

\* for x_sph, x_hyp1 in it.product(cnfs_sphr, cnfs_hyp1), the i-th pair of
\* the product being (x_sph(i), x_hyp1(i)): when x_sph /\ x_hyp1 is
\* unsatisfiable the list cnfs_hyp2 is scanned and False is returned at the
\* first unsatisfiable x_sph /\ x_hyp2; True after the last pair.
satcheck_entangled(cnfs_sphr, cnfs_hyp1, cnfs_hyp2) ==
    LET n1 == Len(cnfs_hyp1)
        x_sph(i) == cnfs_sphr[((i - 1) \div n1) + 1]
        x_hyp1(i) == cnfs_hyp1[((i - 1) % n1) + 1]
        returns_false(i) ==
            /\ ~ cnf_pysat_satcheck(cnf_and_cnf(x_sph(i), x_hyp1(i)))
            /\ \E k \in DOMAIN cnfs_hyp2 :
                  ~ cnf_pysat_satcheck(cnf_and_cnf(x_sph(i), cnfs_hyp2[k]))
    IN ~ \E i \in 1..(Len(cnfs_sphr) * n1) : returns_false(i)

\* Variant: the split that sets the first element apart is not yielded.
RECURSIVE set_partitions_without_singleton(_)
set_partitions_without_singleton(L) ==
    IF Len(L) < 2 THEN << >>
    ELSE IF Len(L) = 2 THEN << << <<L[1]>>, <<L[2]>> >> >>
    ELSE Let(set_partitions_without_singleton(Tail(L)), LAMBDA sub :
         [i \in 1..(2 * Len(sub)) |->
             Let(sub[(i + 1) \div 2], LAMBDA p :
                 IF i % 2 = 1 THEN << <<Head(L)>> \o p[1], p[2] >>
                 ELSE << p[1], <<Head(L)>> \o p[2] >>)])

\* more_itertools.set_partitions(link, 2).
RECURSIVE set_partitions(_)
set_partitions(L) ==
    IF Len(L) < 2 THEN << >>
    ELSE IF Len(L) = 2 THEN << << <<L[1]>>, <<L[2]>> >> >>
    ELSE Let(set_partitions(Tail(L)), LAMBDA sub :
         << << <<Head(L)>>, Tail(L) >> >>
         \o [i \in 1..(2 * Len(sub)) |->
             Let(sub[(i + 1) \div 2], LAMBDA p :
                 IF i % 2 = 1 THEN << <<Head(L)>> \o p[1], p[2] >>
                 ELSE << p[1], <<Head(L)>> \o p[2] >>)])

compute_all_two_partitions_of_link_raises(mhg, vertex, guarantee_nonempty) ==
    LET link_ == link(mhg, vertex)
    IN \/ link_ = << >>
       \/ guarantee_nonempty /\ ~ (Len(link_) > 1)

compute_all_two_partitions_of_link(mhg, vertex, guarantee_nonempty) ==
    set_partitions(link(mhg, vertex))

RECURSIVE decompose(_, _, _)
RECURSIVE all_decompose_pair(_, _, _)
RECURSIVE all_satcheck_partition(_, _, _, _, _)

\* Variant: all instead of any.
decompose_pair_all(hyp1_hyp2, c) ==
    Let(decompose(mhgraph(hyp1_hyp2[1]), FALSE, c), LAMBDA first :
        IF first.ret # "True" THEN first
        ELSE decompose(mhgraph(hyp1_hyp2[2]), FALSE, first.cache))

\* any(map(decompose, map(mhgraph, hyp1_hyp2)))
decompose_pair(hyp1_hyp2, c) ==
    IF mhgraph_raises(hyp1_hyp2[1]) THEN Return(Raised, c)
    ELSE Let(decompose(mhgraph(hyp1_hyp2[1]), FALSE, c), LAMBDA first :
             IF first.ret # "False" THEN first
             ELSE IF mhgraph_raises(hyp1_hyp2[2]) THEN Return(Raised, first.cache)
             ELSE decompose(mhgraph(hyp1_hyp2[2]), FALSE, first.cache))

\* Variant: True as soon as the first piece has a verdict, whatever it is.
satcheck_independent_any_verdict(sphr_hyp1, sphr_hyp2, c) ==
    Let(decompose(sphr_hyp1, FALSE, c), LAMBDA first :
        IF first.ret = Raised THEN first ELSE Return("True", first.cache))

\* decompose(sphr_hyp1) or decompose(sphr_hyp2)
satcheck_independent(sphr_hyp1, sphr_hyp2, c) ==
    Let(decompose(sphr_hyp1, FALSE, c), LAMBDA first :
        IF first.ret # "False" THEN first
        ELSE decompose(sphr_hyp2, FALSE, first.cache))

\* The last part of satcheck_partition: the heuristic check, then the Cnfs
\* of the three parts.
satcheck_heuristic_then_entangled(sphr_, hyp1, hyp2, sphr_union_hyp1, sphr_union_hyp2, c) ==
    Let(satcheck_independent(sphr_union_hyp1, sphr_union_hyp2, c), LAMBDA heuristic :
        IF heuristic.ret # "False" THEN heuristic
        ELSE IF mhgraph_raises(sphr_) THEN Return(Raised, heuristic.cache)
        ELSE Let(cnfs_from_mhgraph(mhgraph(hyp1), TRUE), LAMBDA cnfs_hyp1 :
             Let(cnfs_from_mhgraph(mhgraph(hyp2), TRUE), LAMBDA cnfs_hyp2 :
             Let(cnfs_from_mhgraph(mhgraph(sphr_), TRUE), LAMBDA cnfs_sphr :
                 Return(Bool(satcheck_entangled(cnfs_sphr, cnfs_hyp1, cnfs_hyp2)),
                        heuristic.cache)))))

satcheck_partition(mhg, sphr_, hyp1_hyp2, c) ==
    LET hyp1 == hyp1_hyp2[1]
        hyp2 == hyp1_hyp2[2]
    IN IF mhgraph_raises(hyp1) \/ mhgraph_raises(hyp2) THEN Return(Raised, c)
       ELSE Let(is_oversaturated(mhgraph(hyp1)), LAMBDA hyp1_oversaturated :
            Let(is_oversaturated(mhgraph(hyp2)), LAMBDA hyp2_oversaturated :
                IF hyp1_oversaturated /\ hyp2_oversaturated THEN Return("False", c)
                ELSE IF graph_union_raises(sphr_, hyp1) \/ graph_union_raises(sphr_, hyp2)
                     THEN Return(Raised, c)
                ELSE Let(graph_union(sphr_, hyp1), LAMBDA sphr_union_hyp1 :
                     Let(graph_union(sphr_, hyp2), LAMBDA sphr_union_hyp2 :
                         IF hyp1_oversaturated THEN decompose(sphr_union_hyp2, FALSE, c)
                         ELSE IF hyp2_oversaturated THEN decompose(sphr_union_hyp1, FALSE, c)
                         ELSE satcheck_heuristic_then_entangled(
                                  sphr_, hyp1, hyp2, sphr_union_hyp1, sphr_union_hyp2, c)))))

\* all(decompose_pair(hyp1_hyp2) for hyp1_hyp2 in two_partitions), from the
\* i-th partition on.
all_decompose_pair(two_partitions, i, c) ==
    IF i > Len(two_partitions) THEN Return("True", c)
    ELSE Let(decompose_pair(two_partitions[i], c), LAMBDA status :
             IF status.ret # "True" THEN status
             ELSE all_decompose_pair(two_partitions, i + 1, status.cache))

\* Variant: the status of the first partition visited decides.
first_satcheck_partition(mhg, sphr_, two_partitions, i, c) ==
    IF i > Len(two_partitions) THEN Return("True", c)
    ELSE satcheck_partition(mhg, sphr_, two_partitions[i], c)

\* all(map(satcheck_partition, two_partitions)), from the i-th partition on.
all_satcheck_partition(mhg, sphr_, two_partitions, i, c) ==
    IF i > Len(two_partitions) THEN Return("True", c)
    ELSE Let(satcheck_partition(mhg, sphr_, two_partitions[i], c), LAMBDA status :
             IF status.ret # "True" THEN status
             ELSE all_satcheck_partition(mhg, sphr_, two_partitions, i + 1, status.cache))

\* lambda parts: abs(len(parts[0]) - len(parts[1])) <= 1
is_hyperbolic(parts) ==
    Let(Len(parts[1]) - Len(parts[2]), LAMBDA d : (IF d < 0 THEN 0 - d ELSE d) <= 1)

\* The 2-partitions that decompose_at_vertex visits.
two_partitions_of_link(mhg, vertex, flag) ==
    Let(compute_all_two_partitions_of_link(mhg, vertex, TRUE), LAMBDA all_partitions :
        IF flag THEN SelectSeq(all_partitions, is_hyperbolic) ELSE all_partitions)

decompose_at_vertex(mhg, vertex, flag, c) ==
    IF compute_all_two_partitions_of_link_raises(mhg, vertex, TRUE)
    THEN Return(Raised, c)
    ELSE Let(sphr(mhg, vertex), LAMBDA sphr_ :
         Let(two_partitions_of_link(mhg, vertex, flag), LAMBDA two_partitions :
             IF sphr_ = << >> THEN all_decompose_pair(two_partitions, 1, c)
             ELSE IF is_oversaturated(mhgraph(sphr_)) THEN Return("False", c)
             ELSE all_satcheck_partition(mhg, sphr_, two_partitions, 1, c)))

\* The body of decompose on the MHGraph left by the simplification.
decompose_simplified(simp, flag, c) ==
    IF ~ \A hedge \in DOMAIN simp : Cardinality(hedge) > 1 THEN Return(Raised, c)
    ELSE IF ~ \A v \in vertices(simp) : degree(v, simp) > 1 THEN Return(Raised, c)
    ELSE Let(pick_max_degree_vertex(simp), LAMBDA vert :
             decompose_at_vertex(simp, vert, flag, c))

\* The body of decompose; the None that simplify_at_leaves_and_loops returns
\* after an exception makes the assertions raise.
decompose_uncached(mhg, flag, c) ==
    Let(simplify_at_leaves_and_loops(mhg), LAMBDA mhg_simp :
        IF mhg_simp.kind = "bool" THEN Return(Bool(mhg_simp.bool), c)
        ELSE IF mhg_simp.kind = "none" THEN Return(Raised, c)
        ELSE decompose_simplified(mhg_simp.mhg, flag, c))

\* @ft.lru_cache(maxsize=1024) def decompose(mhg_, hyperbolic_only=False): a
\* hit returns the stored result, a miss runs the body and stores what it
\* returns (nothing when it raises).
decompose(mhg, flag, c) ==
    Let(make_key(mhg, flag), LAMBDA key :
    Let(cache_get(c, key), LAMBDA found :
        IF found # {}
        THEN Let(CHOOSE i \in found : TRUE, LAMBDA hit :
                 Return(c.entries[hit].result, cache_hit(c, hit)))
        ELSE Let(decompose_uncached(mhg, flag, c), LAMBDA result :
                 IF result.ret = Raised THEN result
                 ELSE Return(result.ret, cache_put(result.cache, key, result.ret)))))

(***************************************************************************)
(* morphism.py.  A Translation is a function from Vertices to Vertices; a   *)
(* HGraph is the set of HEdges of a MHGraph.                                 *)
(***************************************************************************)
\* The members of a set of integers in the order a tuple of them is walked.
SortedSeq(S) ==
    [i \in 1..Cardinality(S) |->
        CHOOSE x \in S : Cardinality({y \in S : y < x}) = i - 1]

Factorial(n) == ProdOver([i \in 1..n |-> i], 1..n)

\* it.permutations(pool): by position, in lexicographic order.
RECURSIVE permutations(_)
permutations(pool) ==
    IF pool = << >> THEN << << >> >>
    ELSE Let(Factorial(Len(pool) - 1), LAMBDA m :
             [j \in 1..(Len(pool) * m) |->
                 Let(((j - 1) \div m) + 1, LAMBDA i :
                     <<pool[i]>> \o
                     permutations([q \in 1..(Len(pool) - 1) |->
                                      IF q < i THEN pool[q] ELSE pool[q + 1]])
                         [((j - 1) % m) + 1])])

\* dict(zip(keys, values)).
zip(keys, values) ==
    [v \in Range(keys) |-> values[CHOOSE i \in DOMAIN keys : keys[i] = v]]

hgraph_from_mhgraph(mhg) == DOMAIN mhg

vertexmap(translation, hgraph1, hgraph2) ==
    /\ DOMAIN translation = UNION hgraph1
    /\ Range(translation) \subseteq UNION hgraph2

injective_vertexmap(translation) ==
    Cardinality(DOMAIN translation) = Cardinality(Range(translation))

\* generate_vertexmaps(hgraph1, hgraph2, injective=True): the product of the
\* permutations of the domain's vertices with the combinations of as many of
\* the codomain's vertices, each pair zipped into a Translation.
generate_vertexmaps(hgraph1, hgraph2) ==
    Let(permutations(SortedSeq(UNION hgraph1)), LAMBDA domain :
    Let(combinations(SortedSeq(UNION hgraph2), Cardinality(UNION hgraph1)),
        LAMBDA codomain :
            [j \in 1..(Len(domain) * Len(codomain)) |->
                zip(domain[((j - 1) \div Len(codomain)) + 1],
                    SortedSeq(codomain[((j - 1) % Len(codomain)) + 1]))]))

\* The assertions of generate_vertexmaps: every Translation generated is a
\* VertexMap and is injective.
generate_vertexmaps_raises(hgraph1, hgraph2) ==
    Let(generate_vertexmaps(hgraph1, hgraph2), LAMBDA translations :
        \E j \in DOMAIN translations :
            \/ ~ vertexmap(translations[j], hgraph1, hgraph2)
            \/ ~ injective_vertexmap(translations[j]))

graph_image(translation, mhg) ==
    Let(elements(mhg), LAMBDA hedges :
        mhgraph([i \in DOMAIN hedges |-> {translation[vertex] : vertex \in hedges[i]}]))

\* morphism(ivmap) is not None.
morphism(translation, hgraph1, hgraph2) ==
    DOMAIN graph_image(translation, [hedge \in hgraph1 |-> 1]) \subseteq hgraph2

\* Variant: the multiplicities are not compared.
is_immediate_subgraph_of_keys(mhg1, mhg2) == DOMAIN mhg1 \subseteq DOMAIN mhg2

is_immediate_subgraph(mhg1, mhg2) ==
    \A hedge \in DOMAIN mhg1 : hedge \in DOMAIN mhg2 /\ mhg1[hedge] <= mhg2[hedge]

\* The heuristic checks of subgraph_search; iterating a Counter walks its
\* keys, so '# edges' and '# hedges' count what the -no-mul checks count.
heuristics(mhg1, mhg2) ==
    /\ Cardinality(vertices(mhg1)) <= Cardinality(vertices(mhg2))
    /\ \A size \in {2, 3} :
          Cardinality({h \in DOMAIN mhg1 : Cardinality(h) = size})
              <= Cardinality({h \in DOMAIN mhg2 : Cardinality(h) = size})

\* (False, None) is [found |-> FALSE, morphisms |-> << >>]; (True, m) holds
\* the one Morphism and (True, iterator) all of them, in the order found.
subgraph_search(mhg1, mhg2, return_all) ==
    IF ~ heuristics(mhg1, mhg2) THEN [found |-> FALSE, morphisms |-> << >>]
    ELSE Let(SelectSeq(generate_vertexmaps(hgraph_from_mhgraph(mhg1),
                                           hgraph_from_mhgraph(mhg2)),
                       LAMBDA m :
                           /\ morphism(m, hgraph_from_mhgraph(mhg1),
                                       hgraph_from_mhgraph(mhg2))
                           /\ is_immediate_subgraph(graph_image(m, mhg1), mhg2)),
             LAMBDA subgraph_morphs :
                 IF subgraph_morphs = << >>
                 THEN [found |-> FALSE, morphisms |-> << >>]
                 ELSE IF return_all
                 THEN [found |-> TRUE, morphisms |-> subgraph_morphs]
                 ELSE [found |-> TRUE, morphisms |-> <<Head(subgraph_morphs)>>])

\* Variant: only the search from mhg1 into mhg2 is made.
isomorphism_search_one_way(mhg1, mhg2, return_all) ==
    subgraph_search(mhg1, mhg2, return_all)

isomorphism_search(mhg1, mhg2, return_all) ==
    IF ~ subgraph_search(mhg2, mhg1, FALSE).found
    THEN [found |-> FALSE, morphisms |-> << >>]
    ELSE subgraph_search(mhg1, mhg2, return_all)

(***************************************************************************)
(* The state machine: a driver hands a candidate MHGraph to one function of *)
(* the library, which returns.                                              *)
(***************************************************************************)
Seeds == 0..MaxSeed

RECURSIVE tuples(_)
tuples(n) ==
    IF n = 0 THEN {<< >>}
    ELSE LET shorter == tuples(n - 1)
         IN shorter \cup {Append(t, h) : t \in {s \in shorter : Len(s) = n - 1}, h \in HEdge}

\* Every MHGraph the constructor builds from 1..MaxEdges HEdges.
MHGraphs == {mhgraph(t) : t \in tuples(MaxEdges) \ {<< >>}}

K3 == mhgraph(<<{1, 2}, {1, 3}, {2, 3}>>)

K4_minus_edge == mhgraph(<<{1, 2}, {1, 3}, {1, 4}, {2, 3}, {2, 4}>>)

K4 == mhgraph(<<{1, 2}, {1, 3}, {1, 4}, {2, 3}, {2, 4}, {3, 4}>>)

K4_3uniform == mhgraph(<<{1, 2, 3}, {1, 2, 4}, {1, 3, 4}, {2, 3, 4}>>)

Butterfly == mhgraph(<<{1, 2}, {1, 3}, {2, 3}, {2, 4}, {2, 5}, {4, 5}>>)

Bowtie == mhgraph(<<{1, 2}, {1, 3}, {2, 3}, {2, 4}, {4, 5}, {4, 6}, {5, 6}>>)

Book3 == mhgraph(<<{1, 2}, {1, 3}, {2, 3}, {1, 4}, {2, 4}, {1, 5}, {2, 5}>>)

Loop(m) == mhgraph(Repeat({1}, m))

Edge12(m) == mhgraph(Repeat({1, 2}, m))

\* The graphs of test_decompose and of the end-to-end scenarios.
Scenarios ==
    { Loop(1), Loop(2), Loop(3),
      Edge12(1), Edge12(2), Edge12(3), Edge12(4), Edge12(5), Edge12(6),
      K3, K4_minus_edge, K4, K4_3uniform, Butterfly, Bowtie, Book3,
      mhgraph(<<{1, 2}, {1, 2}, {1, 2}, {1, 3}, {2, 3}>>),
      mhgraph(<<{1, 2}, {1, 2}, {2, 3}, {2, 3}>>),
      mhgraph(<<{1, 2}, {1, 2}, {2, 3}, {2, 4}, {3, 4}>>),
      mhgraph(<<{1, 2}, {1, 2}, {1, 3}, {1, 4}, {2, 3}, {2, 4}>>) }

Init ==
    /\ mhg_ \in MHGraphs \cup Scenarios
    /\ hyperbolic_only = FALSE
    /\ seed = 0
    /\ pc = "idle"
    /\ ret = "None"
    /\ cache = EmptyCache(maxsize)
    /\ calls = 0
    /\ args = << >>

Decompose ==
    /\ pc = "idle"
    /\ \E flag \in BOOLEAN :
          \E r \in {decompose(mhg_, flag, cache)} :
             /\ hyperbolic_only' = flag
             /\ ret' = r.ret
             /\ cache' = r.cache
    /\ pc' = "decompose"
    /\ calls' = calls + 1
    /\ UNCHANGED <<mhg_, seed, args>>

Simplify ==
    /\ pc = "idle"
    /\ ret' = simplify_at_leaves_and_loops(mhg_)
    /\ pc' = "simplify_at_leaves_and_loops"
    /\ UNCHANGED <<mhg_, hyperbolic_only, seed, cache, calls, args>>

\* One pass through the match statement of simplify_at_leaves_and_loops: it
\* returns (pc' = "simplified") or calls itself on a different MHGraph.
SimplifyBegin ==
    /\ pc = "idle"
    /\ ret' = AsMHGraph(mhg_)
    /\ pc' = "simplifying"
    /\ UNCHANGED <<mhg_, hyperbolic_only, seed, cache, calls, args>>

SimplifyStep ==
    /\ pc = "simplifying"
    /\ \E pass \in {simplify_pass(ret.mhg)} :
          /\ ret' = pass.ret
          /\ pc' = IF pass.recursive THEN "simplifying" ELSE "simplified"
    /\ UNCHANGED <<mhg_, hyperbolic_only, seed, cache, calls, args>>

Satcheck ==
    /\ pc = "idle"
    /\ ret' = mhgraph_pysat_satcheck(mhg_, TRUE)
    /\ pc' = "mhgraph_pysat_satcheck"
    /\ UNCHANGED <<mhg_, hyperbolic_only, seed, cache, calls, args>>

NumberOfCnfs ==
    /\ pc = "idle"
    /\ ret' = number_of_cnfs(mhg_)
    /\ pc' = "number_of_cnfs"
    /\ UNCHANGED <<mhg_, hyperbolic_only, seed, cache, calls, args>>

CnfsFromMhgraph ==
    /\ pc = "idle"
    /\ ret' = cnfs_from_mhgraph(mhg_, TRUE)
    /\ pc' = "cnfs_from_mhgraph"
    /\ UNCHANGED <<mhg_, hyperbolic_only, seed, cache, calls, args>>

Next ==
    \/ Decompose
    \/ Simplify
    \/ SimplifyBegin
    \/ SimplifyStep
    \/ Satcheck
    \/ NumberOfCnfs
    \/ CnfsFromMhgraph

Spec == Init /\ [][Next]_vars

\* simplify_at_leaves_and_loops alone, one pass of its match statement at a
\* time; a started call keeps running.
InitSimplify ==
    /\ mhg_ \in MHGraphs \cup Scenarios
    /\ hyperbolic_only = FALSE
    /\ seed = 0
    /\ pc = "idle"
    /\ ret = [kind |-> "none"]
    /\ cache = EmptyCache(maxsize)
    /\ calls = 0
    /\ args = << >>

NextSimplify == SimplifyBegin \/ SimplifyStep

SpecSimplify == InitSimplify /\ [][NextSimplify]_vars /\ WF_vars(SimplifyStep)

\* The same MHGraph decomposed in a second process, in which the Counters and
\* the random module visit their elements in another order.
InitOrder ==
    /\ mhg_ \in MHGraphs \cup Scenarios
    /\ hyperbolic_only = FALSE
    /\ seed \in Seeds
    /\ pc = "idle"
    /\ ret = "None"
    /\ cache = EmptyCache(maxsize)
    /\ calls = 0
    /\ args = << >>

Reshuffle ==
    /\ pc = "decompose"
    /\ seed' \in Seeds \ {seed}
    /\ cache' = EmptyCache(maxsize)
    /\ pc' = "reshuffled"
    /\ UNCHANGED <<mhg_, hyperbolic_only, ret, calls, args>>

DecomposeAgain ==
    /\ pc = "reshuffled"
    /\ \E r \in {decompose(mhg_, hyperbolic_only, cache)} :
          /\ ret' = r.ret
          /\ cache' = r.cache
    /\ pc' = "decomposed again"
    /\ calls' = calls + 1
    /\ UNCHANGED <<mhg_, hyperbolic_only, seed, args>>

NextOrder == Decompose \/ Reshuffle \/ DecomposeAgain

SpecOrder == InitOrder /\ [][NextOrder]_vars

\* The MHGraphs of a sequence of calls: among them MHGraphs that hash alike
\* (the same HEdges with other multiplicities) and answer differently.
CachePool ==
    { Loop(1), Loop(2), Edge12(3), Edge12(4), K3, K4_minus_edge, Butterfly,
      mhgraph(<<{1, 2}, {1, 2}, {1, 2}, {1, 3}, {2, 3}>>) }

\* A sequence of calls of decompose in one process, against a cache of a
\* small capacity so that entries are evicted.
InitCache ==
    /\ mhg_ \in CachePool
    /\ hyperbolic_only = FALSE
    /\ seed = 0
    /\ pc = "idle"
    /\ ret = "None"
    /\ cache \in {EmptyCache(size) : size \in 1..MaxCacheSize}
    /\ calls = 0
    /\ args = << >>

NextCall ==
    /\ pc = "decompose"
    /\ calls < MaxCalls
    /\ mhg_' \in CachePool
    /\ pc' = "idle"
    /\ ret' = "None"
    /\ UNCHANGED <<hyperbolic_only, seed, cache, calls, args>>

NextCache == Decompose \/ NextCall

SpecCache == InitCache /\ [][NextCache]_vars

(***************************************************************************)
(* Cnfs handed to the functions of cnf.py and of translation.py.           *)
(***************************************************************************)
Variable == 1..MaxVariable

Lit == Variable \cup {0 - v : v \in Variable} \cup {BoolFALSE, BoolTRUE}

\* The Cnfs one more Lit makes of a Cnf: the Lit joins a Clause or makes a
\* Clause of its own.
grow(x) ==
    {(x \ {c}) \cup {c \cup {l}} : c \in x, l \in Lit} \cup {x \cup {{l}} : l \in Lit}

RECURSIVE CnfsUpTo(_)
CnfsUpTo(n) ==
    IF n = 1 THEN {{{l}} : l \in Lit}
    ELSE Let(CnfsUpTo(n - 1), LAMBDA smaller :
             smaller \cup UNION {grow(x) : x \in smaller})

\* Every Cnf over Lit written with at most MaxLits Lits.
Cnfs == CnfsUpTo(MaxLits)

InitCnf ==
    /\ mhg_ = Loop(1)
    /\ hyperbolic_only = FALSE
    /\ seed = 0
    /\ pc = "idle"
    /\ ret = [kind |-> "None"]
    /\ cache = EmptyCache(maxsize)
    /\ calls = 0
    /\ args \in {[cnf_instance |-> x] : x \in Cnfs}

MhgraphFromCnf ==
    /\ pc = "idle"
    /\ IF mhgraph_from_cnf_raises(args.cnf_instance)
       THEN ret' = [kind |-> "raised"] /\ mhg_' = mhg_
       ELSE \E g \in {mhgraph_from_cnf(args.cnf_instance)} :
               ret' = AsMHGraph(g) /\ mhg_' = g
    /\ pc' = "mhgraph_from_cnf"
    /\ UNCHANGED <<hyperbolic_only, seed, cache, calls, args>>

\* cnfs_from_mhgraph(mhgraph_from_cnf(cnf_instance)).
CnfsFromMhgraphFromCnf ==
    /\ pc = "mhgraph_from_cnf"
    /\ ret.kind = "mhg"
    /\ ret' = cnfs_from_mhgraph(mhg_, TRUE)
    /\ pc' = "cnfs_from_mhgraph"
    /\ UNCHANGED <<mhg_, hyperbolic_only, seed, cache, calls, args>>

TautologicallyReduceClause ==
    /\ pc = "idle"
    /\ \E clause_instance \in args.cnf_instance :
          /\ args' = [cnf_instance |-> args.cnf_instance,
                      clause_instance |-> clause_instance]
          /\ ret' = [kind |-> "clause",
                     clause |-> tautologically_reduce_clause(clause_instance)]
    /\ pc' = "tautologically_reduce_clause"
    /\ UNCHANGED <<mhg_, hyperbolic_only, seed, cache, calls>>

TautologicallyReduceCnf ==
    /\ pc = "idle"
    /\ ret' = [kind |-> "cnf", cnf |-> tautologically_reduce_cnf(args.cnf_instance)]
    /\ pc' = "tautologically_reduce_cnf"
    /\ UNCHANGED <<mhg_, hyperbolic_only, seed, cache, calls, args>>

\* The dicts from Variables to Bools, as the sequences of their items.
Assignments ==
    {assignment \in UNION {[1..n -> [variable : Variable,
                                     boolean : {BoolFALSE, BoolTRUE}]] :
                              n \in 0..MaxVariable} :
        \A i, j \in DOMAIN assignment :
            assignment[i].variable = assignment[j].variable => i = j}

Assign ==
    /\ pc = "idle"
    /\ \E assignment \in Assignments :
          /\ args' = [cnf_instance |-> args.cnf_instance, assignment |-> assignment]
          /\ ret' = [kind |-> "cnf", cnf |-> assign(args.cnf_instance, assignment)]
    /\ pc' = "assign"
    /\ UNCHANGED <<mhg_, hyperbolic_only, seed, cache, calls>>

NextCnf ==
    \/ MhgraphFromCnf
    \/ CnfsFromMhgraphFromCnf
    \/ TautologicallyReduceClause
    \/ TautologicallyReduceCnf
    \/ Assign

SpecCnf == InitCnf /\ [][NextCnf]_vars

\* tautologically_reduce_cnf call by call: ret is the Cnf the function is
\* called on (pc = "reducing") and at last the Cnf returned ("reduced").
TautologicallyReduceCnfBegin ==
    /\ pc = "idle"
    /\ ret' = [kind |-> "cnf", cnf |-> args.cnf_instance]
    /\ pc' = "reducing"
    /\ UNCHANGED <<mhg_, hyperbolic_only, seed, cache, calls, args>>

TautologicallyReduceCnfStep ==
    /\ pc = "reducing"
    /\ \E pass \in {tautologically_reduce_cnf_pass(ret.cnf)} :
          /\ ret' = [kind |-> "cnf", cnf |-> pass.ret]
          /\ pc' = IF pass.recursive THEN "reducing" ELSE "reduced"
    /\ UNCHANGED <<mhg_, hyperbolic_only, seed, cache, calls, args>>

NextReduce ==
    \/ TautologicallyReduceClause
    \/ TautologicallyReduceCnfBegin
    \/ TautologicallyReduceCnfStep

SpecReduce ==
    InitCnf /\ [][NextReduce]_vars /\ WF_vars(TautologicallyReduceCnfStep)

(***************************************************************************)
(* A HEdge and a multiplicity handed to clauses_from_hedge and to          *)
(* cnfs_from_hedge.                                                        *)
(***************************************************************************)
InitHedge ==
    /\ mhg_ = Loop(1)
    /\ hyperbolic_only = FALSE
    /\ seed = 0
    /\ pc = "idle"
    /\ ret = "None"
    /\ cache = EmptyCache(maxsize)
    /\ calls = 0
    /\ args \in [hedge : HEdge, multiplicity : (0 - 1)..(pow2(MaxVertex) + 1)]

ClausesFromHedge ==
    /\ pc = "idle"
    /\ ret' = clauses_from_hedge(args.hedge)
    /\ pc' = "clauses_from_hedge"
    /\ UNCHANGED <<mhg_, hyperbolic_only, seed, cache, calls, args>>

\* list(cnfs_from_hedge(hedge, multiplicity)).
CnfsFromHedge ==
    /\ pc = "idle"
    /\ ret' = IF cnfs_from_hedge_raises(args.hedge, args.multiplicity)
              THEN [kind |-> "raised"]
              ELSE [kind |-> "cnfs",
                    cnfs |-> cnfs_from_hedge(args.hedge, args.multiplicity)]
    /\ pc' = "cnfs_from_hedge"
    /\ UNCHANGED <<mhg_, hyperbolic_only, seed, cache, calls, args>>

NextHedge ==
    \/ ClausesFromHedge
    \/ CnfsFromHedge

SpecHedge == InitHedge /\ [][NextHedge]_vars

(***************************************************************************)
(* Two MHGraphs handed to subgraph_search and to isomorphism_search.        *)
(***************************************************************************)
\* Every MHGraph of n HEdges on the vertices 1..MaxMorphismVertex.
MHGraphsOf(n) ==
    {mhgraph(t) : t \in [1..n -> (SUBSET (1..MaxMorphismVertex)) \ {{}}]}

\* The pairs of test_morphism.py and of the module's own example.
MorphismScenarios ==
    { <<mhgraph(<<{1}>>), mhgraph(<<{11}>>)>>,
      <<mhgraph(<<{1}>>), mhgraph(<<{11}, {12}>>)>>,
      <<mhgraph(<<{1, 2}>>), mhgraph(<<{11, 12}>>)>>,
      <<mhgraph(<<{1, 2}>>), mhgraph(<<{11, 12}, {11}>>)>>,
      <<mhgraph(<<{1, 2}>>), mhgraph(<<{11, 12}, {11, 12}>>)>>,
      <<mhgraph(<<{1, 2}, {1, 2}>>), mhgraph(<<{11, 12}, {11, 12}>>)>>,
      <<mhgraph(<<{1, 2}>>), mhgraph(<<{11, 12}, {13, 14}>>)>>,
      <<mhgraph(<<{1}>>), mhgraph(<<{11, 12}>>)>>,
      <<mhgraph(<<{1, 2}>>), mhgraph(<<{1, 2, 3}>>)>>,
      <<mhgraph(<<{1}, {2}>>), mhgraph(<<{11}, {12}>>)>>,
      <<mhgraph(<<{1, 2}, {1}>>), mhgraph(<<{11}, {11, 12}>>)>>,
      <<mhgraph(<<{1, 2}>>), mhgraph(<<{11, 12, 13}>>)>>,
      <<mhgraph(<<{1, 2, 3}, {1, 2}>>), mhgraph(<<{3, 2, 4}, {2, 4}>>)>> }

\* The pairs of MHGraphs that have at most MaxMorphismEdges HEdges together.
MorphismPairs ==
    MorphismScenarios \cup
    UNION {MHGraphsOf(n[1]) \X MHGraphsOf(n[2]) :
              n \in {m \in (1..MaxMorphismEdges) \X (1..MaxMorphismEdges) :
                        m[1] + m[2] <= MaxMorphismEdges}}

InitMorphism ==
    /\ mhg_ = Loop(1)
    /\ hyperbolic_only = FALSE
    /\ seed = 0
    /\ pc = "idle"
    /\ ret = "None"
    /\ cache = EmptyCache(maxsize)
    /\ calls = 0
    /\ args \in {[mhg1 |-> pair[1], mhg2 |-> pair[2], return_all |-> flag] :
                   pair \in MorphismPairs, flag \in BOOLEAN}

\* The value of a search, or the AssertionError of generate_vertexmaps.
SearchResult(result) ==
    IF /\ heuristics(args.mhg1, args.mhg2)
       /\ generate_vertexmaps_raises(hgraph_from_mhgraph(args.mhg1),
                                     hgraph_from_mhgraph(args.mhg2))
    THEN [kind |-> "raised"]
    ELSE [kind |-> "tuple", found |-> result.found, morphisms |-> result.morphisms]

SubgraphSearch ==
    /\ pc = "idle"
    /\ ret' = SearchResult(subgraph_search(args.mhg1, args.mhg2, args.return_all))
    /\ pc' = "subgraph_search"
    /\ UNCHANGED <<mhg_, hyperbolic_only, seed, cache, calls, args>>

IsomorphismSearch ==
    /\ pc = "idle"
    /\ ret' = SearchResult(isomorphism_search(args.mhg1, args.mhg2, args.return_all))
    /\ pc' = "isomorphism_search"
    /\ UNCHANGED <<mhg_, hyperbolic_only, seed, cache, calls, args>>

NextMorphism ==
    \/ SubgraphSearch
    \/ IsomorphismSearch

SpecMorphism == InitMorphism /\ [][NextMorphism]_vars

\* decompose answered without any cache.
Uncached(mhg, flag) == decompose(mhg, flag, EmptyCache(0)).ret

\* C1: for every MHGraph that supports at least one Cnf, decompose returns
\* True exactly when every Cnf supported on it is satisfiable.
DecompositionAgreement ==
    (pc = "decompose" /\ ~ hyperbolic_only /\ number_of_cnfs(mhg_) > 0)
        => ret = Bool(mhgraph_pysat_satcheck(mhg_, FALSE))

DecompositionAgreementWitness ==
    /\ pc = "decompose"
    /\ ~ hyperbolic_only
    /\ number_of_cnfs(mhg_) > 0
    /\ simplify_at_leaves_and_loops(mhg_).kind = "mhg"
    /\ sphr(mhg_, pick_max_degree_vertex(mhg_)) # << >>
    /\ ret = "False"

\* C2: decompose returns True or False on every MHGraph and with either
\* flag: no assertion of decompose, compute_all_two_partitions_of_link,
\* simplify_at_loops or graph_union fails and no constructor receives an
\* empty collection, at any depth of the recursion (an exception anywhere
\* would surface as Raised).
DecomposeTotal ==
    pc = "decompose" => ret \in {"True", "False"}

DecomposeTotalWitness ==
    /\ pc = "decompose"
    /\ mhg_ = Bowtie
    /\ hyperbolic_only
    /\ ret \in {"True", "False"}

\* C3: on an oversaturated MHGraph decompose returns False and
\* cnfs_from_mhgraph yields nothing.
OversaturationLaw ==
    is_oversaturated(mhg_) =>
        /\ (pc = "decompose" /\ ~ hyperbolic_only) => ret = "False"
        /\ pc = "cnfs_from_mhgraph" => ret = << >>

OversaturationLawWitness ==
    /\ is_oversaturated(mhg_)
    /\ ~ has_double_loop(mhg_)
    /\ pc = "decompose"
    /\ ~ hyperbolic_only
    /\ ret = "False"

\* C4: simplify_at_leaves_and_loops preserves satisfiability: a Boolean
\* result is True exactly when the input supports a Cnf and all its Cnfs are
\* satisfiable, and a returned MHGraph is equisatisfiable with the input.
SimplificationPreservesSat ==
    pc = "simplify_at_leaves_and_loops" =>
        /\ ret.kind \in {"bool", "mhg"}
        /\ ret.kind = "bool" => ret.bool = mhgraph_pysat_satcheck(mhg_, FALSE)
        /\ ret.kind = "mhg" =>
              mhgraph_pysat_satcheck(ret.mhg, FALSE) = mhgraph_pysat_satcheck(mhg_, FALSE)

SimplificationPreservesSatWitness ==
    /\ pc = "simplify_at_leaves_and_loops"
    /\ ret.kind = "mhg"
    /\ ret.mhg # mhg_
    /\ supports_single_loop(mhg_) # 0
    /\ mhgraph_pysat_satcheck(mhg_, FALSE)

\* C5: an MHGraph returned by simplify_at_leaves_and_loops is non-empty, all
\* its hedges have at least two vertices and all its vertices have degree at
\* least two.
SimplificationPostCondition ==
    (pc = "simplify_at_leaves_and_loops" /\ ret.kind = "mhg") =>
        /\ DOMAIN ret.mhg # {}
        /\ \A hedge \in DOMAIN ret.mhg : ret.mhg[hedge] >= 1 /\ Cardinality(hedge) >= 2
        /\ \A v \in vertices(ret.mhg) : degree(v, ret.mhg) >= 2

SimplificationPostConditionWitness ==
    /\ pc = "simplify_at_leaves_and_loops"
    /\ ret.kind = "mhg"
    /\ ret.mhg # mhg_
    /\ pick_min_degree_vertex(mhg_) \notin vertices(ret.mhg)

\* Termination measure of the simplification: (number of vertices, total
\* multiplicity), compared in lexicographic order.
measure(mhg) == <<Cardinality(vertices(mhg)), Len(elements(mhg))>>

LexLess(a, b) == a[1] < b[1] \/ (a[1] = b[1] /\ a[2] < b[2])

\* C6: simplify_at_leaves_and_loops terminates: every recursive step, which
\* maps an MHGraph to a different MHGraph, strictly decreases (number of
\* vertices, total multiplicity) in lexicographic order, and a started
\* simplification reaches a Bool or a fixed-point MHGraph.
SimplificationTerminates ==
    /\ [][(pc = "simplifying" /\ pc' = "simplifying") =>
             LexLess(measure(ret'.mhg), measure(ret.mhg))]_vars
    /\ (pc = "simplifying") ~> (pc = "simplified" /\ ret.kind \in {"bool", "mhg"})

SimplificationTerminatesWitness ==
    /\ pc = "simplified"
    /\ ret.kind = "mhg"
    /\ ret.mhg # mhg_
    /\ supports_single_loop(mhg_) # 0

RECURSIVE Binomial(_, _)
Binomial(n, k) ==
    IF k > n THEN 0
    ELSE IF k = 0 \/ k = n THEN 1
    ELSE Binomial(n - 1, k - 1) + Binomial(n - 1, k)

\* C10: number_of_cnfs is the product over the hedges (h, m) of the binomial
\* coefficient of 2^|h| over m, the distinct Cnfs yielded by
\* cnfs_from_mhgraph are exactly that many, and none for an oversaturated
\* MHGraph.
CountingLaw ==
    /\ pc = "number_of_cnfs" =>
          ret = ProdOver([h \in DOMAIN mhg_ |->
                             Binomial(pow2(Cardinality(h)), mhg_[h])], DOMAIN mhg_)
    /\ pc = "cnfs_from_mhgraph" =>
          /\ Cardinality(Range(ret)) = number_of_cnfs(mhg_)
          /\ is_oversaturated(mhg_) => Cardinality(Range(ret)) = 0

CountingLawWitness ==
    /\ pc = "cnfs_from_mhgraph"
    /\ Cardinality(DOMAIN mhg_) > 1
    /\ \E h \in DOMAIN mhg_ : mhg_[h] > 1
    /\ Cardinality(Range(ret)) > 1

\* C7: whatever calls came before and whatever was evicted, decompose
\* returns what it returns without a cache, and every entry of the cache
\* holds the uncached result of its key; a key matches only a MHGraph with
\* the same multiplicities.
MemoizationEquivalence ==
    /\ pc = "decompose" => ret = Uncached(mhg_, hyperbolic_only)
    /\ \A i \in DOMAIN cache.entries :
          cache.entries[i].result =
              Uncached(cache.entries[i].key[1], cache.entries[i].key[2])

MemoizationEquivalenceWitness ==
    /\ pc = "decompose"
    /\ calls = MaxCalls
    /\ Len(cache.entries) = cache.maxsize
    /\ \E i \in DOMAIN cache.entries :
          /\ DOMAIN cache.entries[i].key[1] = DOMAIN mhg_
          /\ cache.entries[i].key[1] # mhg_
          /\ cache.entries[i].result # ret

\* C8: decompose returns the same value on the same MHGraph whatever the
\* order in which the 2-partitions of the link are visited and in which
\* cnfs_from_mhgraph yields the Cnfs.
OrderIndependence ==
    [][pc = "reshuffled" => ret' = ret]_vars

OrderIndependenceWitness ==
    /\ pc = "decomposed again"
    /\ seed # 0
    /\ simplify_at_leaves_and_loops(mhg_).kind = "mhg"
    /\ sphr(mhg_, pick_max_degree_vertex(mhg_)) # << >>
    /\ ret = "True"

\* C11 as stated: the Cnf itself is among the Cnfs yielded for its MHGraph.
RoundTripOfTheCnfItself ==
    pc = "cnfs_from_mhgraph" => args.cnf_instance \in Range(ret)

\* C11: for every Cnf that does not reduce to TRUE_CNF or FALSE_CNF, its
\* tautological reduction is one of the Cnfs yielded by
\* cnfs_from_mhgraph(mhgraph_from_cnf(Cnf)); so the Cnf itself is one when
\* it is already reduced.
RoundTrip ==
    pc = "cnfs_from_mhgraph" =>
        tautologically_reduce_cnf(args.cnf_instance) \in Range(ret)

RoundTripWitness ==
    /\ pc = "cnfs_from_mhgraph"
    /\ Cardinality(args.cnf_instance) > 1
    /\ \E h \in DOMAIN mhg_ : mhg_[h] > 1
    /\ args.cnf_instance \in Range(ret)

\* The Clause that gives the vertices in positive the sign + and the other
\* vertices of hedge the sign -.
SignedClause(hedge, positive) == positive \cup {0 - v : v \in hedge \ positive}

\* C12: clauses_from_hedge(h) yields exactly 2^|h| distinct Clauses, one for
\* each choice of sign per vertex of h; cnfs_from_hedge(h, m) raises for
\* m < 1 and otherwise yields, each once, exactly the Cnfs made of m
\* distinct such Clauses: C(2^|h|, m) of them, none for m > 2^|h|.
PerHedgeEnumeration ==
    /\ pc = "clauses_from_hedge" =>
          /\ Len(ret) = pow2(Cardinality(args.hedge))
          /\ Range(ret) = {SignedClause(args.hedge, positive) :
                               positive \in SUBSET args.hedge}
          /\ Cardinality(Range(ret)) = pow2(Cardinality(args.hedge))
    /\ pc = "cnfs_from_hedge" =>
          /\ args.multiplicity < 1 <=> ret.kind = "raised"
          /\ ret.kind = "cnfs" =>
                /\ Range(ret.cnfs) =
                      {x \in SUBSET {SignedClause(args.hedge, positive) :
                                         positive \in SUBSET args.hedge} :
                          Cardinality(x) = args.multiplicity}
                /\ Len(ret.cnfs) =
                      Binomial(pow2(Cardinality(args.hedge)), args.multiplicity)
                /\ Cardinality(Range(ret.cnfs)) = Len(ret.cnfs)
                /\ args.multiplicity > pow2(Cardinality(args.hedge)) =>
                      ret.cnfs = << >>

PerHedgeEnumerationWitness ==
    /\ pc = "cnfs_from_hedge"
    /\ Cardinality(args.hedge) = 2
    /\ args.multiplicity = 3
    /\ ret.kind = "cnfs"
    /\ Len(ret.cnfs) = 4

\* A Clause that holds TRUE or a Lit together with its negation.
ClauseIsTrue(c) ==
    BoolTRUE \in c \/ \E l \in c : ~ IsBool(l) /\ (0 - l) \in c

\* The variables of a Clause.
ClauseVariables(c) == {IF l < 0 THEN 0 - l ELSE l : l \in c \ {BoolFALSE}}

Img(f, h) == {f[v] : v \in h}

\* The injective maps from the vertices of G1 into the vertices of G2 under
\* which every HEdge of G1 of multiplicity k maps to a HEdge of G2 of
\* multiplicity at least k.
SubgraphMaps(G1, G2) ==
    {f \in [vertices(G1) -> vertices(G2)] :
        /\ \A v, w \in vertices(G1) : f[v] = f[w] => v = w
        /\ \A h \in DOMAIN G1 :
              Img(f, h) \in DOMAIN G2 /\ G1[h] <= G2[Img(f, h)]}

\* The heuristic gate: the vertex count and the numbers of distinct HEdges of
\* size 2 and of size 3 of G1 do not exceed those of G2.
Gate(G1, G2) ==
    /\ Cardinality(vertices(G1)) <= Cardinality(vertices(G2))
    /\ Cardinality({h \in DOMAIN G1 : Cardinality(h) = 2})
          <= Cardinality({h \in DOMAIN G2 : Cardinality(h) = 2})
    /\ Cardinality({h \in DOMAIN G1 : Cardinality(h) = 3})
          <= Cardinality({h \in DOMAIN G2 : Cardinality(h) = 3})

\* C14: subgraph_search returns (True, m) exactly when such a map exists,
\* every Morphism it returns is such a map, and the heuristic gate rejects
\* no pair for which one exists.
SubgraphSearchLaw ==
    pc = "subgraph_search" =>
        /\ ret.kind = "tuple"
        /\ ret.found <=> SubgraphMaps(args.mhg1, args.mhg2) # {}
        /\ ret.found <=> ret.morphisms # << >>
        /\ Range(ret.morphisms) \subseteq SubgraphMaps(args.mhg1, args.mhg2)
        /\ ~ Gate(args.mhg1, args.mhg2) => SubgraphMaps(args.mhg1, args.mhg2) = {}

SubgraphSearchLawWitness ==
    /\ pc = "subgraph_search"
    /\ args.return_all
    /\ ret.found
    /\ Len(ret.morphisms) > 1
    /\ \E h \in DOMAIN args.mhg1 : args.mhg1[h] > 1
    /\ \E v \in vertices(args.mhg1) : ret.morphisms[1][v] # v

\* The MHGraph a map of vertices makes of G: every HEdge replaced by its
\* image, multiplicities of HEdges with the same image added up.
Image(f, G) ==
    [h2 \in {Img(f, h) : h \in DOMAIN G} |->
        SumOver([h \in DOMAIN G |-> IF Img(f, h) = h2 THEN G[h] ELSE 0], DOMAIN G)]

\* C15: isomorphism_search answers the same for (G1, G2) and for (G2, G1),
\* and the image of G1 under every Morphism it returns is G2, HEdge for
\* HEdge and multiplicity for multiplicity; (1,2)^1 and (11,12)^2 are not
\* isomorphic.
IsomorphismSearchLaw ==
    pc = "isomorphism_search" =>
        /\ ret.kind = "tuple"
        /\ ret.found = isomorphism_search(args.mhg2, args.mhg1, args.return_all).found
        /\ ret.found <=> ret.morphisms # << >>
        /\ \A i \in DOMAIN ret.morphisms : Image(ret.morphisms[i], args.mhg1) = args.mhg2
        /\ (args.mhg1 = ({1, 2} :> 1) /\ args.mhg2 = ({11, 12} :> 2)) => ~ ret.found

IsomorphismSearchLawWitness ==
    /\ pc = "isomorphism_search"
    /\ ret.found
    /\ args.mhg1 # args.mhg2
    /\ \E h \in DOMAIN args.mhg1 : args.mhg1[h] > 1

\* C16: tautologically_reduce_clause and tautologically_reduce_cnf are
\* idempotent, and the recursion of tautologically_reduce_cnf terminates:
\* every recursive call is on a Cnf of fewer Clauses, and a reduction that
\* was started returns.
TautologicalReductionIdempotent ==
    /\ [](pc = "tautologically_reduce_clause" =>
             tautologically_reduce_clause(ret.clause) = ret.clause)
    /\ [](pc = "reduced" => tautologically_reduce_cnf(ret.cnf) = ret.cnf)
    /\ [][(pc = "reducing" /\ pc' = "reducing") =>
             Cardinality(ret'.cnf) < Cardinality(ret.cnf)]_vars
    /\ (pc = "reducing") ~> (pc = "reduced")

TautologicalReductionIdempotentWitness ==
    /\ pc = "reduced"
    /\ \E c \in args.cnf_instance : ClauseIsTrue(c)
    /\ \E c \in args.cnf_instance : BoolFALSE \in c
    /\ ret.cnf \notin {TRUE_CNF, FALSE_CNF}
    /\ ret.cnf # args.cnf_instance

\* A Clause without Bool literal and without a literal and its negation.
PlainClause(c) ==
    /\ c # {}
    /\ \A l \in c : ~ IsBool(l) /\ (0 - l) \notin c

\* C17: tautologically_reduce_cnf returns {{TRUE}}, {{FALSE}} or a non-empty
\* set of Clauses without Bool literal and without complementary pair;
\* tautologically_reduce_clause returns {TRUE}, {FALSE} or such a Clause,
\* by the rules in the order TRUE-member, sole-FALSE, drop-FALSE,
\* complementary-pair.
TautologicalNormalForm ==
    /\ pc = "tautologically_reduce_cnf" =>
          \/ ret.cnf = {{BoolTRUE}}
          \/ ret.cnf = {{BoolFALSE}}
          \/ ret.cnf # {} /\ \A c \in ret.cnf : PlainClause(c)
    /\ pc = "tautologically_reduce_clause" =>
          /\ \/ ret.clause = {BoolTRUE}
             \/ ret.clause = {BoolFALSE}
             \/ PlainClause(ret.clause)
          /\ ret.clause =
                CASE BoolTRUE \in args.clause_instance -> {BoolTRUE}
                  [] BoolTRUE \notin args.clause_instance
                     /\ args.clause_instance = {BoolFALSE} -> {BoolFALSE}
                  [] BoolTRUE \notin args.clause_instance
                     /\ args.clause_instance # {BoolFALSE}
                     /\ \E l \in args.clause_instance \ {BoolFALSE} :
                           (0 - l) \in args.clause_instance -> {BoolTRUE}
                  [] OTHER -> args.clause_instance \ {BoolFALSE}

TautologicalNormalFormWitness ==
    /\ pc = "tautologically_reduce_clause"
    /\ BoolFALSE \in args.clause_instance
    /\ Cardinality(args.clause_instance) > 2
    /\ PlainClause(ret.clause)

\* C18: assigning a again in assign(C, a) changes nothing, and assign(C, {})
\* is tautologically_reduce_cnf(C).
AssignmentLaws ==
    pc = "assign" =>
        /\ assign(ret.cnf, args.assignment) = ret.cnf
        /\ args.assignment = << >> =>
              ret.cnf = tautologically_reduce_cnf(args.cnf_instance)

AssignmentLawsWitness ==
    /\ pc = "assign"
    /\ args.assignment # << >>
    /\ ret.cnf \notin {TRUE_CNF, FALSE_CNF}
    /\ ret.cnf # tautologically_reduce_cnf(args.cnf_instance)

(***************************************************************************)
(* graph_rewrite.py: the partition terms at one Vertex of a simplified     *)
(* MHGraph.  args is the Vertex and the position of one 2-partition of its  *)
(* link in the order compute_all_two_partitions_of_link yields them.        *)
(***************************************************************************)
\* The tuples of at most n HEdges of two or more Vertices, one tuple for
\* every MHGraph the constructor builds of them.
RECURSIVE proper_tuples(_)
proper_tuples(n) ==
    IF n = 0 THEN {<< >>}
    ELSE Let(proper_tuples(n - 1), LAMBDA shorter :
         Let({g \in HEdge : Cardinality(g) > 1}, LAMBDA hedges :
             shorter \cup
             UNION {{Append(t, h) :
                        h \in {g \in hedges :
                                  t = << >> \/ HEdgeKey(t[Len(t)]) <= HEdgeKey(g)}} :
                    t \in {s \in shorter : Len(s) = n - 1}}))

\* The MHGraphs without loops and the smaller scenarios: the Cnfs of the
\* three parts are enumerated.
PartitionGraphs ==
    {mhgraph(t) : t \in proper_tuples(MaxEdges) \ {<< >>}}
        \cup {g \in Scenarios : SumOver(g, DOMAIN g) <= MaxEdges + 2}

\* The Vertices of a MHGraph at which sphr is neither empty nor
\* oversaturated, each with the positions of the 2-partitions of its link.
PartitionArgs(mhg) ==
    Let([v \in vertices(mhg) |->
            Let(sphr(mhg, v), LAMBDA sphr_ :
                IF sphr_ = << >> THEN 0
                ELSE IF is_oversaturated(mhgraph(sphr_)) THEN 0
                ELSE Len(set_partitions(link(mhg, v))))], LAMBDA terms :
        UNION {{[vertex |-> v, position |-> i] : i \in 1..terms[v]} :
                  v \in vertices(mhg)})

\* decompose has simplified mhg_ and calls decompose_at_vertex; the
\* partition terms of every Vertex are looked at, not only those of the
\* Vertex that decompose picks.
InitPartition ==
    /\ hyperbolic_only = FALSE
    /\ seed = 0
    /\ pc = "idle"
    /\ mhg_ \in {g \in PartitionGraphs : simplify_at_leaves_and_loops(g) = AsMHGraph(g)}
    /\ ret = [kind |-> "none"]
    /\ cache = EmptyCache(maxsize)
    /\ calls = 0
    /\ args \in PartitionArgs(mhg_)

\* The arguments decompose_at_vertex hands to satcheck_partition, and the
\* Cnfs satcheck_partition hands to satcheck_entangled.
PartitionTerm ==
    Let(sphr(mhg_, args.vertex), LAMBDA sphr_ :
    Let(compute_all_two_partitions_of_link(mhg_, args.vertex, TRUE)[args.position],
        LAMBDA hyp1_hyp2 :
            [sphr |-> sphr_, hyp1_hyp2 |-> hyp1_hyp2,
             cnfs_sphr |-> cnfs_from_mhgraph(mhgraph(sphr_), TRUE),
             cnfs_hyp1 |-> cnfs_from_mhgraph(mhgraph(hyp1_hyp2[1]), TRUE),
             cnfs_hyp2 |-> cnfs_from_mhgraph(mhgraph(hyp1_hyp2[2]), TRUE)]))

SatcheckPartition ==
    /\ pc = "idle"
    /\ \E term \in {PartitionTerm} :
          \E r \in {satcheck_partition(mhg_, term.sphr, term.hyp1_hyp2, cache)} :
             /\ ret' = [kind |-> "bool", bool |-> r.ret]
             /\ cache' = r.cache
    /\ pc' = "satcheck_partition"
    /\ UNCHANGED <<mhg_, hyperbolic_only, seed, calls, args>>

SatcheckIndependent ==
    /\ pc = "idle"
    /\ \E term \in {PartitionTerm} :
          \E r \in {satcheck_independent(graph_union(term.sphr, term.hyp1_hyp2[1]),
                                         graph_union(term.sphr, term.hyp1_hyp2[2]),
                                         cache)} :
             /\ ret' = [kind |-> "bool", bool |-> r.ret]
             /\ cache' = r.cache
    /\ pc' = "satcheck_independent"
    /\ UNCHANGED <<mhg_, hyperbolic_only, seed, calls, args>>

SatcheckEntangled ==
    /\ pc = "idle"
    /\ \E term \in {PartitionTerm} :
          ret' = [kind |-> "bool",
                  bool |-> Bool(satcheck_entangled(term.cnfs_sphr, term.cnfs_hyp1,
                                                   term.cnfs_hyp2))]
    /\ pc' = "satcheck_entangled"
    /\ UNCHANGED <<mhg_, hyperbolic_only, seed, cache, calls, args>>

NextPartition ==
    \/ SatcheckPartition
    \/ SatcheckIndependent
    \/ SatcheckEntangled

SpecPartition == InitPartition /\ [][NextPartition]_vars

\* C21: at a partition term whose sphr, hyp1 and hyp2 are not oversaturated,
\* when satcheck_independent(sphr + hyp1, sphr + hyp2) returns True then
\* satcheck_entangled on the Cnfs of sphr, hyp1 and hyp2 returns True as
\* well, so that satcheck_partition returns what satcheck_entangled returns.
HeuristicSound ==
    pc \in {"satcheck_independent", "satcheck_partition"} =>
        Let(PartitionTerm, LAMBDA term :
            (/\ ~ is_oversaturated(mhgraph(term.hyp1_hyp2[1]))
             /\ ~ is_oversaturated(mhgraph(term.hyp1_hyp2[2]))) =>
                Let(Bool(satcheck_entangled(term.cnfs_sphr, term.cnfs_hyp1,
                                            term.cnfs_hyp2)), LAMBDA entangled :
                    /\ ret.bool \in {"True", "False"}
                    /\ (pc = "satcheck_independent" /\ ret.bool = "True")
                          => entangled = "True"
                    /\ pc = "satcheck_partition" => ret.bool = entangled))

HeuristicSoundWitness ==
    /\ pc = "satcheck_independent"
    /\ ret.bool = "True"
    /\ Cardinality(DOMAIN mhg_) > 2
    /\ Let(PartitionTerm, LAMBDA term :
           /\ ~ is_oversaturated(mhgraph(term.hyp1_hyp2[1]))
           /\ ~ is_oversaturated(mhgraph(term.hyp1_hyp2[2]))
           /\ Len(term.hyp1_hyp2[1]) + Len(term.hyp1_hyp2[2]) > 2)

\* C22: satcheck_entangled returns True exactly when for every x_sph, x_hyp1
\* and x_hyp2 one of x_sph /\ x_hyp1 and x_sph /\ x_hyp2 is satisfiable, and
\* False exactly when some x_sph is unsatisfiable with some x_hyp1 and with
\* some x_hyp2.
EntangledLaw ==
    pc = "satcheck_entangled" =>
        Let(PartitionTerm, LAMBDA term :
        Let(Range(term.cnfs_sphr), LAMBDA xs :
        Let(Range(term.cnfs_hyp1), LAMBDA xh1 :
        Let(Range(term.cnfs_hyp2), LAMBDA xh2 :
        Let({pair \in xs \X (xh1 \cup xh2) :
                cnf_pysat_satcheck(cnf_and_cnf(pair[1], pair[2]))}, LAMBDA sat :
            /\ ret.bool = "True" <=>
                  \A x_sph \in xs, x_hyp1 \in xh1, x_hyp2 \in xh2 :
                     <<x_sph, x_hyp1>> \in sat \/ <<x_sph, x_hyp2>> \in sat
            /\ ret.bool = "False" <=>
                  \E x_sph \in xs :
                     /\ \E x_hyp1 \in xh1 : <<x_sph, x_hyp1>> \notin sat
                     /\ \E x_hyp2 \in xh2 : <<x_sph, x_hyp2>> \notin sat)))))

\* True although some x_sph /\ x_hyp1 is unsatisfiable.
EntangledLawWitness ==
    /\ pc = "satcheck_entangled"
    /\ ret.bool = "True"
    /\ Let(PartitionTerm, LAMBDA term :
           \E i \in DOMAIN term.cnfs_sphr, j \in DOMAIN term.cnfs_hyp1 :
              ~ cnf_pysat_satcheck(cnf_and_cnf(term.cnfs_sphr[i], term.cnfs_hyp1[j])))

\* compute_all_two_partitions_of_link at a Vertex of any MHGraph.
InitLink ==
    /\ mhg_ \in MHGraphs \cup Scenarios
    /\ hyperbolic_only = FALSE
    /\ seed = 0
    /\ pc = "idle"
    /\ ret = [kind |-> "none"]
    /\ cache = EmptyCache(maxsize)
    /\ calls = 0
    /\ args \in {[vertex |-> v] : v \in vertices(mhg_)}

ComputeAllTwoPartitionsOfLink ==
    /\ pc = "idle"
    /\ ret' = IF compute_all_two_partitions_of_link_raises(mhg_, args.vertex, TRUE)
              THEN [kind |-> "raised"]
              ELSE [kind |-> "partitions",
                    partitions |->
                        compute_all_two_partitions_of_link(mhg_, args.vertex, TRUE)]
    /\ pc' = "compute_all_two_partitions_of_link"
    /\ UNCHANGED <<mhg_, hyperbolic_only, seed, cache, calls, args>>

NextLink == ComputeAllTwoPartitionsOfLink

SpecLink == InitLink /\ [][NextLink]_vars

\* The 2-partitions of the positions 1..n of a link of n HEdges.
PositionPartitions(n) == set_partitions([i \in 1..n |-> i])

\* C23: for a link of n >= 2 HEdges compute_all_two_partitions_of_link
\* yields 2^(n-1) - 1 pairs of non-empty lists; the pairs split the
\* positions 1..n of the link in 2^(n-1) - 1 different ways, and the two
\* lists of a pair hold together the HEdges of the link, each as often as
\* the link has it.
TwoPartitionsLaw ==
    pc = "compute_all_two_partitions_of_link" =>
        Let(link(mhg_, args.vertex), LAMBDA link_ :
        Let(Len(link_), LAMBDA n :
            /\ ret.kind = "raised" <=> n < 2
            /\ n >= 2 =>
                  /\ Len(ret.partitions) = pow2(n - 1) - 1
                  /\ \A k \in DOMAIN ret.partitions :
                        /\ ret.partitions[k][1] # << >>
                        /\ ret.partitions[k][2] # << >>
                        /\ mhgraph(ret.partitions[k][1] \o ret.partitions[k][2])
                              = mhgraph(link_)
                  /\ Len(PositionPartitions(n)) = Len(ret.partitions)
                  /\ \A k \in DOMAIN ret.partitions :
                        Let(PositionPartitions(n)[k], LAMBDA split :
                            /\ ret.partitions[k][1]
                                  = [j \in DOMAIN split[1] |-> link_[split[1][j]]]
                            /\ ret.partitions[k][2]
                                  = [j \in DOMAIN split[2] |-> link_[split[2][j]]]
                            /\ Range(split[1]) \cap Range(split[2]) = {}
                            /\ Range(split[1]) \cup Range(split[2]) = 1..n
                            /\ Len(split[1]) + Len(split[2]) = n)
                  /\ Cardinality({{Range(PositionPartitions(n)[k][1]),
                                   Range(PositionPartitions(n)[k][2])} :
                                      k \in DOMAIN ret.partitions})
                        = pow2(n - 1) - 1))

TwoPartitionsLawWitness ==
    /\ pc = "compute_all_two_partitions_of_link"
    /\ ret.kind = "partitions"
    /\ Len(ret.partitions) >= 3
    /\ \E h \in DOMAIN mhg_ : args.vertex \in h /\ mhg_[h] > 1

(***************************************************************************)
(* graph_rewrite.py: one chain of recursive calls of decompose.  mhg_ is    *)
(* the argument of the innermost call and calls is the depth of that call;  *)
(* the chain follows any one of the calls decompose_at_vertex makes,        *)
(* whatever the calls before it returned.                                   *)
(***************************************************************************)
\* The MHGraphs that satcheck_partition hands to decompose, directly or
\* through satcheck_independent.
satcheck_partition_calls(sphr_, hyp1_hyp2) ==
    Let(is_oversaturated(mhgraph(hyp1_hyp2[1])), LAMBDA hyp1_oversaturated :
    Let(is_oversaturated(mhgraph(hyp1_hyp2[2])), LAMBDA hyp2_oversaturated :
        IF hyp1_oversaturated /\ hyp2_oversaturated THEN {}
        ELSE IF hyp1_oversaturated THEN {graph_union(sphr_, hyp1_hyp2[2])}
        ELSE IF hyp2_oversaturated THEN {graph_union(sphr_, hyp1_hyp2[1])}
        ELSE {graph_union(sphr_, hyp1_hyp2[1]), graph_union(sphr_, hyp1_hyp2[2])}))

\* The MHGraphs that decompose_at_vertex hands to decompose, through
\* decompose_pair or through satcheck_partition.
decompose_at_vertex_calls(mhg, v, flag) ==
    Let(sphr(mhg, v), LAMBDA sphr_ :
    Let(Range(two_partitions_of_link(mhg, v, flag)), LAMBDA two_partitions :
        IF sphr_ = << >>
        THEN UNION {{mhgraph(hyp1_hyp2[1]), mhgraph(hyp1_hyp2[2])} :
                       hyp1_hyp2 \in two_partitions}
        ELSE IF is_oversaturated(mhgraph(sphr_)) THEN {}
        ELSE UNION {satcheck_partition_calls(sphr_, hyp1_hyp2) :
                       hyp1_hyp2 \in two_partitions}))

InitChain ==
    /\ mhg_ \in MHGraphs \cup Scenarios
    /\ hyperbolic_only \in BOOLEAN
    /\ seed = 0
    /\ pc = "idle"
    /\ ret = [kind |-> "none"]
    /\ cache = EmptyCache(maxsize)
    /\ calls = 0
    /\ args = [input |-> mhg_, vertex |-> 0]

\* The call of decompose on the input.
DecomposeCall ==
    /\ pc = "idle"
    /\ pc' = "decompose"
    /\ calls' = 1
    /\ UNCHANGED <<mhg_, hyperbolic_only, seed, ret, cache, args>>

\* decompose up to its last line: it returns the bool of the simplification
\* or goes on to decompose_at_vertex on the simplified MHGraph.
DecomposeBody ==
    /\ pc = "decompose"
    /\ \E mhg_simp \in {simplify_at_leaves_and_loops(mhg_)} :
          IF mhg_simp.kind = "mhg"
          THEN /\ mhg_' = mhg_simp.mhg
               /\ args' = [args EXCEPT !.vertex = pick_max_degree_vertex(mhg_simp.mhg)]
               /\ pc' = "decompose_at_vertex"
          ELSE /\ pc' = "returned"
               /\ UNCHANGED <<mhg_, args>>
    /\ UNCHANGED <<hyperbolic_only, seed, ret, cache, calls>>

\* decompose_at_vertex calls decompose on one of the parts; hyperbolic_only
\* has its default in that call.
DecomposeAtVertexCall ==
    /\ pc = "decompose_at_vertex"
    /\ mhg_' \in decompose_at_vertex_calls(mhg_, args.vertex, hyperbolic_only)
    /\ hyperbolic_only' = FALSE
    /\ calls' = calls + 1
    /\ pc' = "decompose"
    /\ UNCHANGED <<seed, ret, cache, args>>

\* decompose_at_vertex returns, and with it decompose.
DecomposeAtVertexReturn ==
    /\ pc = "decompose_at_vertex"
    /\ pc' = "returned"
    /\ UNCHANGED <<mhg_, hyperbolic_only, seed, ret, cache, calls, args>>

NextChain ==
    \/ DecomposeCall
    \/ DecomposeBody
    \/ DecomposeAtVertexCall
    \/ DecomposeAtVertexReturn

\* Every call that is made runs to its return.
SpecChain ==
    /\ InitChain
    /\ [][NextChain]_vars
    /\ WF_vars(DecomposeCall)
    /\ WF_vars(DecomposeBody)
    /\ WF_vars(DecomposeAtVertexReturn)

\* C24: every MHGraph that decompose_at_vertex(G', v) hands to decompose has
\* its Vertices among those of G' other than v, the simplification adds no
\* Vertex, the depth of a call never exceeds the number of Vertices of the
\* input, and every chain of calls ends.
DecomposeTerminates ==
    /\ [][(pc = "decompose_at_vertex" /\ pc' = "decompose") =>
             vertices(mhg_') \subseteq vertices(mhg_) \ {args.vertex}]_vars
    /\ [][(pc = "decompose" /\ pc' = "decompose_at_vertex") =>
             vertices(mhg_') \subseteq vertices(mhg_)]_vars
    /\ [](calls <= Cardinality(vertices(args.input)))
    /\ (pc = "decompose") ~> (pc = "returned")

\* A call at depth three.
DecomposeTerminatesWitness ==
    /\ pc = "decompose"
    /\ calls >= 3
    /\ vertices(mhg_) # vertices(args.input)

(***************************************************************************)
(* translation.py: simplify_at_loops on its own, as test_simplify_at_loops  *)
(* calls it.                                                                *)
(***************************************************************************)
InitLoops ==
    /\ mhg_ \in MHGraphs \cup Scenarios
    /\ hyperbolic_only = FALSE
    /\ seed = 0
    /\ pc = "idle"
    /\ ret = [kind |-> "none"]
    /\ cache = EmptyCache(maxsize)
    /\ calls = 0
    /\ args = << >>

SimplifyAtLoops ==
    /\ pc = "idle"
    /\ ret' = simplify_at_loops(mhg_)
    /\ pc' = "simplify_at_loops"
    /\ UNCHANGED <<mhg_, hyperbolic_only, seed, cache, calls, args>>

NextLoops == SimplifyAtLoops

SpecLoops == InitLoops /\ [][NextLoops]_vars

\* The Vertices of g that carry a loop.
LoopedVertices(g) == {v \in vertices(g) : {v} \in DOMAIN g}

\* Two singly-looped Vertices joined by an edge, as in {(1),(1,2),(2)}.
JoinedLoops(g) ==
    \E v, w \in LoopedVertices(g) : v # w /\ {v, w} \in DOMAIN g

\* C25: simplify_at_loops returns FALSE for a graph with a loop of
\* multiplicity two or more and for a graph in which two singly-looped
\* Vertices are joined by an edge; otherwise it returns TRUE for a single
\* loop, sphr + link at a looped Vertex with other edges, and the graph
\* itself when no HEdge has size 1.
SimplifyAtLoopsLaw ==
    pc = "simplify_at_loops" =>
       IF (\E v \in LoopedVertices(mhg_) : mhg_[{v}] >= 2) \/ JoinedLoops(mhg_)
       THEN ret = AsBool(FALSE)
       ELSE IF LoopedVertices(mhg_) = {} THEN ret = AsMHGraph(mhg_)
       ELSE IF mhg_ \in {Loop(1), mhgraph(<<{2}>>), mhgraph(<<{3}>>)}
       THEN ret = AsBool(TRUE)
       ELSE \E v \in LoopedVertices(mhg_) :
               /\ ~ graph_union_raises(sphr(mhg_, v), link(mhg_, v))
               /\ ret = AsMHGraph(graph_union(sphr(mhg_, v), link(mhg_, v)))

(***************************************************************************)
(* decompose under the iteration orders the implementation may use: the    *)
(* first call runs under the ascending order, the second under an order    *)
(* that starts at any Vertex of the graph.                                  *)
(***************************************************************************)
InitChoice ==
    /\ mhg_ \in MHGraphs \cup Scenarios
    /\ hyperbolic_only = FALSE
    /\ seed = 0
    /\ pc = "chosen"
    /\ ret = [kind |-> "none"]
    /\ cache = EmptyCache(maxsize)
    /\ calls = 0
    /\ args = [first |-> 0]

DecomposeChosen ==
    /\ pc = "chosen"
    /\ calls < MaxCalls
    /\ ret' = [kind |-> "bool", bool |-> Uncached(mhg_, hyperbolic_only)]
    /\ calls' = calls + 1
    /\ pc' = "decompose"
    /\ UNCHANGED <<mhg_, hyperbolic_only, seed, cache, args>>

\* Another run of the program, with another iteration order.
Rechoose ==
    /\ pc = "decompose"
    /\ \E first \in vertices(mhg_) \ {args.first} : args' = [first |-> first]
    /\ pc' = "chosen"
    /\ UNCHANGED <<mhg_, hyperbolic_only, seed, ret, cache, calls>>

NextChoice == DecomposeChosen \/ Rechoose

SpecChoice == InitChoice /\ [][NextChoice]_vars

\* C26: decompose returns the same value whichever Vertex comes first among
\* the Vertices of maximal degree, of minimal degree and among the looped
\* Vertices, in the call itself and in every recursive call.
ChoiceIndependence ==
    [][(pc = "chosen" /\ calls >= 1 /\ pc' = "decompose") => ret' = ret]_vars

\* A second call whose order makes another Vertex the one of maximal degree
\* that is picked.
ChoiceIndependenceWitness ==
    /\ pc = "decompose"
    /\ calls >= 2
    /\ args.first # 0
    /\ simplify_at_leaves_and_loops(mhg_) = AsMHGraph(mhg_)
    /\ \E v \in vertices(mhg_) :
          /\ v < args.first
          /\ degree(v, mhg_) = degree(args.first, mhg_)
          /\ \A w \in vertices(mhg_) : degree(w, mhg_) <= degree(v, mhg_)

(***************************************************************************)
(* decompose on a MHGraph and then on a MHGraph next to it: one with one    *)
(* HEdge less, one with two Vertex names exchanged, or the same one with    *)
(* hyperbolic_only set.                                                     *)
(***************************************************************************)
\* MHGraphs with a Vertex of degree four, the least degree at which
\* hyperbolic_only leaves 2-partitions out, that simplification leaves alone.
HyperbolicScenarios ==
    { mhgraph(<<{1, 2, 3}, {1, 2, 3}, {1, 2, 3}, {1, 2, 3}>>),
      mhgraph(<<{1, 2, 3}, {1, 2, 3}, {1, 2}, {1, 3}, {2, 3}>>),
      mhgraph(<<{1, 2, 3}, {1, 2, 4}, {1, 3, 4}, {1, 2}, {3, 4}>>),
      mhgraph(<<{1, 2}, {1, 3}, {1, 4}, {1, 5}, {2, 3}, {4, 5}>>) }

InitVerdict ==
    /\ mhg_ \in MHGraphs \cup Scenarios \cup HyperbolicScenarios
    /\ hyperbolic_only = FALSE
    /\ seed = 0
    /\ pc = "idle"
    /\ ret = [kind |-> "none"]
    /\ cache = EmptyCache(maxsize)
    /\ calls = 0
    /\ args = << >>

DecomposeFirst ==
    /\ pc = "idle"
    /\ ret' = [kind |-> "bool", bool |-> Uncached(mhg_, FALSE)]
    /\ calls' = calls + 1
    /\ pc' = "decompose"
    /\ UNCHANGED <<mhg_, hyperbolic_only, seed, cache, args>>

\* decompose on the MHGraph with one HEdge less: every MHGraph whose HEdges
\* occur in mhg_ with at least the same multiplicity is reached by such steps.
DecomposeSubgraph ==
    /\ pc = "decompose"
    /\ SumOver(mhg_, DOMAIN mhg_) >= 2
    /\ \E h \in DOMAIN mhg_ :
          /\ mhg_' = [g \in {e \in DOMAIN mhg_ : e # h \/ mhg_[h] > 1} |->
                          IF g = h THEN mhg_[g] - 1 ELSE mhg_[g]]
          /\ args' = <<h>>
    /\ ret' = [kind |-> "bool", bool |-> Uncached(mhg_', FALSE)]
    /\ calls' = calls + 1
    /\ pc' = "subgraph"
    /\ UNCHANGED <<hyperbolic_only, seed, cache>>

\* decompose on graph_image under the Translation that exchanges two
\* neighbouring Vertex names, at least one of them in mhg_: every injective
\* renaming is made of such exchanges.
DecomposeImage ==
    /\ pc = "decompose"
    /\ \E v \in Vertex \cup vertices(mhg_) :
          /\ v + 1 \in Vertex \cup vertices(mhg_)
          /\ {v, v + 1} \cap vertices(mhg_) # {}
          /\ mhg_' = graph_image([x \in vertices(mhg_) |->
                                     IF x = v THEN v + 1
                                     ELSE IF x = v + 1 THEN v ELSE x],
                                 mhg_)
          /\ args' = <<v, v + 1>>
    /\ ret' = [kind |-> "bool", bool |-> Uncached(mhg_', FALSE)]
    /\ calls' = calls + 1
    /\ pc' = "image"
    /\ UNCHANGED <<hyperbolic_only, seed, cache>>

DecomposeHyperbolic ==
    /\ pc = "decompose"
    /\ hyperbolic_only' = TRUE
    /\ ret' = [kind |-> "bool", bool |-> Uncached(mhg_, TRUE)]
    /\ calls' = calls + 1
    /\ pc' = "hyperbolic"
    /\ UNCHANGED <<mhg_, seed, cache, args>>

NextVerdict ==
    \/ DecomposeFirst
    \/ DecomposeSubgraph
    \/ DecomposeImage
    \/ DecomposeHyperbolic

SpecVerdict == InitVerdict /\ [][NextVerdict]_vars

\* C27: when decompose is True on a MHGraph it is True on the MHGraph with
\* one HEdge less, and so on every MHGraph whose HEdges occur in it with at
\* least the same multiplicity.
SubgraphMonotonicity ==
    [][(pc' = "subgraph" /\ ret.bool = "True") => ret'.bool = "True"]_vars

\* A True verdict handed down to a subgraph that still needs a decomposition.
SubgraphMonotonicityWitness ==
    /\ pc = "subgraph"
    /\ ret.bool = "True"
    /\ Uncached(graph_union(elements(mhg_), args), FALSE) = "True"
    /\ simplify_at_leaves_and_loops(mhg_) = AsMHGraph(mhg_)

\* C28: decompose returns the same value on a MHGraph and on its image
\* under an injective renaming of its Vertices.
RelabelingInvariance ==
    [][pc' = "image" => ret' = ret]_vars

\* An image that is another MHGraph, of a MHGraph the simplification leaves
\* as it is.
RelabelingInvarianceWitness ==
    /\ pc = "image"
    /\ ret.bool = "True"
    /\ simplify_at_leaves_and_loops(mhg_) = AsMHGraph(mhg_)
    /\ graph_image([x \in vertices(mhg_) |->
                       IF x = args[1] THEN args[2]
                       ELSE IF x = args[2] THEN args[1] ELSE x], mhg_) # mhg_

\* C29: when decompose is True without hyperbolic_only it is True with it.
HyperbolicOverApproximation ==
    [][(pc' = "hyperbolic" /\ ret.bool = "True") => ret'.bool = "True"]_vars

\* A True verdict on a MHGraph at whose Vertex of maximal degree the flag
\* leaves some of the 2-partitions out.
HyperbolicOverApproximationWitness ==
    /\ pc = "hyperbolic"
    /\ ret.bool = "True"
    /\ Uncached(mhg_, FALSE) = "True"
    /\ simplify_at_leaves_and_loops(mhg_) = AsMHGraph(mhg_)
    /\ two_partitions_of_link(mhg_, pick_max_degree_vertex(mhg_), TRUE)
          # two_partitions_of_link(mhg_, pick_max_degree_vertex(mhg_), FALSE)

(***************************************************************************)
(* operations.py: the reduction rules and apply_rule                       *)
(***************************************************************************)
GraphNode(graph_instance, free, children) ==
    [graph |-> graph_instance, free |-> free, children |-> children]

EDGE_SMOOTH == GraphNode(mhgraph(<<{1, 2}, {1, 3}>>), 1, <<mhgraph(<<{2, 3}>>)>>)

HEDGE_SMOOTH ==
    GraphNode(mhgraph(<<{1, 2, 3}, {1, 2, 4}>>), 1, <<mhgraph(<<{2, 3, 4}>>)>>)

R1 == GraphNode(mhgraph(<<{1, 2, 3}, {1, 2}>>), 1, <<mhgraph(<<{2, 3}>>)>>)

R2 ==
    GraphNode(mhgraph(<<{1, 2, 3}, {1, 2}, {1, 3}>>), 1,
              <<mhgraph(<<{2}>>), mhgraph(<<{3}>>)>>)

R4 ==
    GraphNode(mhgraph(<<{1, 2, 3}, {1, 2, 4}, {1, 3, 4}>>), 1,
              <<mhgraph(<<{2, 3}>>), mhgraph(<<{2, 4}>>), mhgraph(<<{3, 4}>>)>>)

R5 == GraphNode(mhgraph(<<{1, 2, 3}, {1, 4}>>), 1, <<mhgraph(<<{2, 3, 4}>>)>>)

R7 ==
    GraphNode(mhgraph(<<{1, 2, 3}, {1, 2, 3}, {1, 2}, {1, 3}>>), 1,
              <<mhgraph(Repeat({2, 3}, 3))>>)

LEAF1 == GraphNode(mhgraph(<<{1}>>), 1, << >>)

pop2(n) == GraphNode(mhgraph(Repeat({1, 2}, n)), 1, <<mhgraph(Repeat({2}, n \div 2))>>)

pop3(n) ==
    GraphNode(mhgraph(Repeat({1, 2, 3}, n)), 1, <<mhgraph(Repeat({2, 3}, n \div 2))>>)

KNOWN_RULES ==
    <<EDGE_SMOOTH, HEDGE_SMOOTH, R1, R2, R4, R5, R7>>
    \o [n \in 1..3 |-> pop2(n + 1)]
    \o [n \in 1..7 |-> pop3(n + 1)]

\* Counter.__sub__: the counts subtracted, only the positive ones kept.
counter_sub(counter1, counter2) ==
    Let([h \in DOMAIN counter1 |->
            counter1[h] - (IF h \in DOMAIN counter2 THEN counter2[h] ELSE 0)],
        LAMBDA difference :
            [h \in {g \in DOMAIN difference : difference[g] > 0} |-> difference[h]])

\* Counter.__add__ of two Counters of positive counts.
counter_add(counter1, counter2) ==
    [h \in DOMAIN counter1 \cup DOMAIN counter2 |->
        (IF h \in DOMAIN counter1 THEN counter1[h] ELSE 0)
        + (IF h \in DOMAIN counter2 THEN counter2[h] ELSE 0)]

\* The AssertionError of generate_vertexmaps, or the ValueError of mhgraph
\* on an empty Counter.
apply_rule_raises(graph, rule) ==
    \/ /\ heuristics(rule.graph, graph)
       /\ generate_vertexmaps_raises(hgraph_from_mhgraph(rule.graph),
                                     hgraph_from_mhgraph(graph))
    \/ Let(subgraph_search(rule.graph, graph, TRUE), LAMBDA search :
           \E j \in DOMAIN search.morphisms, c \in DOMAIN rule.children :
               /\ degree(search.morphisms[j][rule.free], graph)
                     = degree(rule.free, rule.graph)
               /\ DOMAIN counter_add(
                      counter_sub(graph, graph_image(search.morphisms[j], rule.graph)),
                      graph_image(search.morphisms[j], rule.children[c])) = {})

\* Variant: the first Morphism found is used, whatever the degree of the
\* image of the free Vertex.
apply_rule_without_degree_check(graph, rule) ==
    Let(subgraph_search(rule.graph, graph, TRUE), LAMBDA search :
        IF ~ search.found THEN <<graph>>
        ELSE Let(graph_image(Head(search.morphisms), rule.graph),
                 LAMBDA mapped_parent :
                     [c \in DOMAIN rule.children |->
                         mhgraph(elements(counter_add(
                             counter_sub(graph, mapped_parent),
                             graph_image(Head(search.morphisms),
                                         rule.children[c]))))]))

apply_rule(graph, rule) ==
    Let(subgraph_search(rule.graph, graph, TRUE), LAMBDA search :
        IF ~ search.found THEN <<graph>>
        ELSE Let(SelectSeq(search.morphisms, LAMBDA sub_morph :
                     degree(sub_morph[rule.free], graph)
                         = degree(rule.free, rule.graph)),
                 LAMBDA fitting :
                     IF fitting = << >> THEN <<graph>>
                     ELSE Let(graph_image(Head(fitting), rule.graph),
                              LAMBDA mapped_parent :
                         [c \in DOMAIN rule.children |->
                             mhgraph(elements(counter_add(
                                 counter_sub(graph, mapped_parent),
                                 graph_image(Head(fitting), rule.children[c]))))])))

Rules == Range(KNOWN_RULES) \cup {LEAF1}

\* The graph of a rule with up to two more HEdges.
RuleScenarios ==
    UNION {{rule.graph} \cup
           {counter_add(rule.graph, mhgraph(<<h>>)) :
               h \in {{2}, {2, 3}, {1, 4}, {4, 5}, {1, 2, 3}}} \cup
           {counter_add(rule.graph, mhgraph(<<h1, h2>>)) :
               h1, h2 \in {{2}, {2, 3}, {1, 4}, {4, 5}, {1, 2, 3}}} :
           rule \in Rules}

RuleGraphs ==
    RuleScenarios \cup UNION {MHGraphsOf(n) : n \in 1..MaxMorphismEdges}

InitRule ==
    /\ mhg_ = Loop(1)
    /\ hyperbolic_only = FALSE
    /\ seed = 0
    /\ pc = "idle"
    /\ ret = [kind |-> "None"]
    /\ cache = EmptyCache(maxsize)
    /\ calls = 0
    /\ args \in [graph : RuleGraphs, rule : Rules]

ApplyRule ==
    /\ pc = "idle"
    /\ ret' = IF apply_rule_raises(args.graph, args.rule)
              THEN [kind |-> "raised"]
              ELSE [kind |-> "list", list |-> apply_rule(args.graph, args.rule)]
    /\ pc' = "apply_rule"
    /\ UNCHANGED <<mhg_, hyperbolic_only, seed, cache, calls, args>>

NextRule == ApplyRule

SpecRule == InitRule /\ [][NextRule]_vars

\* The multiplicity of a HEdge in a MHGraph, 0 for a HEdge it does not have.
Multiplicity(G, h) == IF h \in DOMAIN G THEN G[h] ELSE 0

\* The subgraph witnesses of the rule's pattern in G that send the free
\* Vertex to a Vertex of G of the degree the free Vertex has in the pattern.
RuleWitnesses(G, rule) ==
    {i \in SubgraphMaps(rule.graph, G) :
        degree(i[rule.free], G) = degree(rule.free, rule.graph)}

\* The first of them in the order the Translations are generated.
FirstRuleWitness(G, rule) ==
    Let(generate_vertexmaps(DOMAIN rule.graph, DOMAIN G), LAMBDA translations :
        translations[CHOOSE j \in DOMAIN translations :
                         /\ translations[j] \in RuleWitnesses(G, rule)
                         /\ \A k \in 1..(j - 1) :
                               translations[k] \notin RuleWitnesses(G, rule)])

\* C20: apply_rule(G, rule) returns [G] when the pattern of the rule has no
\* subgraph witness i in G with degree(i(free), G) = degree(free, pattern);
\* otherwise it returns one MHGraph per child of the rule, each G minus
\* i(pattern) plus i(child) for the first such witness i, in which every
\* HEdge of G outside i(pattern) has at least the multiplicity it has in G.
ApplyRuleLaw ==
    pc = "apply_rule" =>
        /\ ret.kind = "list"
        /\ RuleWitnesses(args.graph, args.rule) = {} => ret.list = <<args.graph>>
        /\ RuleWitnesses(args.graph, args.rule) # {} =>
              Let(FirstRuleWitness(args.graph, args.rule), LAMBDA i :
                  /\ Len(ret.list) = Len(args.rule.children)
                  /\ \A c \in DOMAIN args.rule.children :
                        /\ \A h \in DOMAIN args.graph \cup DOMAIN ret.list[c]
                                     \cup DOMAIN Image(i, args.rule.children[c]) :
                              Multiplicity(ret.list[c], h)
                                  = Multiplicity(args.graph, h)
                                    - Multiplicity(Image(i, args.rule.graph), h)
                                    + Multiplicity(Image(i, args.rule.children[c]), h)
                        /\ \A h \in DOMAIN args.graph
                                     \ DOMAIN Image(i, args.rule.graph) :
                              Multiplicity(ret.list[c], h) >= args.graph[h])

ApplyRuleLawWitness ==
    /\ pc = "apply_rule"
    /\ ret.kind = "list"
    /\ Len(ret.list) > 1
    /\ \E h \in DOMAIN args.graph : h \in DOMAIN ret.list[1]
    /\ subgraph_search(args.rule.graph, args.graph, TRUE).morphisms[1]
          \notin RuleWitnesses(args.graph, args.rule)

(***************************************************************************)
(* operations.py: one branch of the tree make_tree builds.  mhg_ is the     *)
(* graph of the node being made, calls its depth, args the place in         *)
(* KNOWN_RULES of the rule that made it out of its parent.                  *)
(***************************************************************************)
\* The loop of make_tree from the r-th rule on: the children of the first
\* rule whose reduction differs from the graph.
RECURSIVE make_tree_loop(_, _)
make_tree_loop(mhgraph_instance, r) ==
    IF r > Len(KNOWN_RULES) THEN [kind |-> "leaf"]
    ELSE IF apply_rule_raises(mhgraph_instance, KNOWN_RULES[r])
    THEN [kind |-> "raised"]
    ELSE Let(apply_rule(mhgraph_instance, KNOWN_RULES[r]), LAMBDA reduction :
             IF reduction[1] # mhgraph_instance
             THEN [kind |-> "children", rule |-> r, children |-> reduction]
             ELSE make_tree_loop(mhgraph_instance, r + 1))

\* make_tree has been called on a MHGraph.
InitTree ==
    /\ mhg_ \in RuleGraphs
    /\ hyperbolic_only = FALSE
    /\ seed = 0
    /\ pc = "make_tree"
    /\ ret = [kind |-> "none"]
    /\ cache = EmptyCache(maxsize)
    /\ calls = 1
    /\ args = [rule |-> 0]

\* make_tree runs its loop up to the first rule that reduces the graph.
MakeTreeLoop ==
    /\ pc = "make_tree"
    /\ ret' = make_tree_loop(mhg_, 1)
    /\ pc' = "loop"
    /\ UNCHANGED <<mhg_, hyperbolic_only, seed, cache, calls, args>>

\* make_tree calls itself on a child of the reduction.
MakeTreeChild ==
    /\ pc = "loop"
    /\ ret.kind = "children"
    /\ mhg_' \in Range(ret.children)
    /\ args' = [rule |-> ret.rule]
    /\ ret' = [kind |-> "none"]
    /\ calls' = calls + 1
    /\ pc' = "make_tree"
    /\ UNCHANGED <<hyperbolic_only, seed, cache>>

\* No rule reduces the graph: make_tree returns a node without children;
\* or apply_rule raises.
MakeTreeReturn ==
    /\ pc = "loop"
    /\ ret.kind # "children"
    /\ pc' = ret.kind
    /\ UNCHANGED <<mhg_, hyperbolic_only, seed, ret, cache, calls, args>>

NextTree == MakeTreeLoop \/ MakeTreeChild \/ MakeTreeReturn

\* The loop of make_tree always ends, and every call that is made returns.
SpecTree ==
    /\ InitTree
    /\ [][NextTree]_vars
    /\ []<>(pc # "make_tree")
    /\ WF_vars(MakeTreeChild)
    /\ WF_vars(MakeTreeReturn)

\* The number of HEdges of a MHGraph, counted with multiplicity.
TotalMultiplicity(G) == SumOver(G, DOMAIN G)

\* C30: a child that make_tree makes has fewer HEdges, counted with
\* multiplicity, than the graph it was made of, and the Vertex the free
\* Vertex of the rule was mapped to is not in it; the same holds of every
\* known rule that reduces a graph of the tree; every branch ends, in a
\* graph that no known rule reduces.
MakeTreeTerminates ==
    /\ [][(pc = "loop" /\ pc' = "make_tree") =>
             /\ TotalMultiplicity(mhg_') < TotalMultiplicity(mhg_)
             /\ RuleWitnesses(mhg_, KNOWN_RULES[ret.rule]) # {}
             /\ FirstRuleWitness(mhg_, KNOWN_RULES[ret.rule])
                    [KNOWN_RULES[ret.rule].free] \notin vertices(mhg_')]_vars
    /\ [](pc = "loop" =>
             \A r \in DOMAIN KNOWN_RULES :
                Let(apply_rule(mhg_, KNOWN_RULES[r]), LAMBDA reduction :
                    reduction[1] # mhg_ =>
                       \A c \in DOMAIN reduction :
                          /\ RuleWitnesses(mhg_, KNOWN_RULES[r]) # {}
                          /\ TotalMultiplicity(reduction[c]) < TotalMultiplicity(mhg_)
                          /\ FirstRuleWitness(mhg_, KNOWN_RULES[r])[KNOWN_RULES[r].free]
                                \notin vertices(reduction[c])))
    /\ [](pc = "leaf" =>
             \A r \in DOMAIN KNOWN_RULES : RuleWitnesses(mhg_, KNOWN_RULES[r]) = {})
    /\ [](pc # "raised")
    /\ (pc = "make_tree") ~> (pc = "leaf")

\* A leaf at depth three.
MakeTreeTerminatesWitness ==
    /\ pc = "leaf"
    /\ calls >= 3
    /\ args.rule # 0

(***************************************************************************)
(* cnf.py, graph.py, mhgraph.py: the constructor functions on the values   *)
(* a caller can pass. A value maps its class to its content:               *)
(* an integer, "F" or "T", the value of a Lit, the tuple of a list, the    *)
(* set of a frozenset, the multiplicities of a Counter.                    *)
(***************************************************************************)
New(cls, value) == cls :> value

class(value) == CHOOSE cls \in DOMAIN value : TRUE

content(value) == value[class(value)]

ValueError == New("ValueError", "")

TypeError == New("TypeError", "")

raised(value) == class(value) \in {"ValueError", "TypeError"}

\* The classes with len() and iteration.
sized(value) ==
    class(value) \in {"list", "frozenset", "Clause", "Cnf", "HEdge", "HGraph",
                   "Graph", "Counter", "MHGraph"}

\* The classes with the attribute elements.
has_elements(value) == class(value) \in {"Counter", "MHGraph"}

len(value) ==
    IF class(value) = "list" THEN Len(content(value))
    ELSE IF has_elements(value) THEN Cardinality(DOMAIN content(value))
    ELSE Cardinality(content(value))

\* not value: an empty collection, or the integer 0.
falsy(value) ==
    IF sized(value) THEN len(value) = 0 ELSE value = New("int", 0)

\* The elements in the order of iteration; a Counter iterates over its keys.
iterate(value) ==
    IF class(value) = "list" THEN content(value)
    ELSE IF has_elements(value) THEN list(DOMAIN content(value))
    ELSE list(content(value))

RECURSIVE chain(_)
chain(iterables) ==
    IF iterables = << >> THEN << >>
    ELSE Head(iterables) \o chain(Tail(iterables))

\* Counter.elements() of a value: each key as many times as its count, none
\* for a count below one.
counter_elements(value) ==
    Let(list(DOMAIN content(value)), LAMBDA keys :
        chain([i \in DOMAIN keys |->
                  [j \in 1..content(value)[keys[i]] |-> keys[i]]]))

\* The tuple of function over iterable, or the first exception function raises.
map(function(_), iterable) ==
    Let([i \in DOMAIN iterable |-> function(iterable[i])], LAMBDA mapped :
        IF \E i \in DOMAIN mapped : raised(mapped[i])
        THEN mapped[CHOOSE i \in DOMAIN mapped :
                        /\ raised(mapped[i])
                        /\ \A j \in 1..(i - 1) : ~ raised(mapped[j])]
        ELSE New("tuple", mapped))

\* Bool <= 0 holds (Bool.__lt__); no other class is ordered against int.
variable(positive_int) ==
    IF class(positive_int) = "int"
    THEN IF content(positive_int) <= 0 THEN ValueError ELSE positive_int
    ELSE IF class(positive_int) = "Bool" THEN ValueError
    ELSE TypeError

lit(int_or_bool) ==
    IF int_or_bool = New("int", 0) THEN ValueError
    ELSE IF class(int_or_bool) = "Lit" THEN int_or_bool
    ELSE IF class(int_or_bool) \in {"int", "Bool"} THEN New("Lit", int_or_bool)
    ELSE TypeError

\* cls(frozenset(map(function, collection))) behind the test for emptiness;
\* message_lists: the message of the ValueError holds list(collection).
construct(cls, function(_), collection, message_lists) ==
    IF falsy(collection)
    THEN IF message_lists /\ ~ sized(collection) THEN TypeError ELSE ValueError
    ELSE IF ~ sized(collection) THEN TypeError
    ELSE Let(map(function, iterate(collection)), LAMBDA mapped :
             IF raised(mapped) THEN mapped
             ELSE New(cls, Range(content(mapped))))

clause(lit_collection) == construct("Clause", lit, lit_collection, TRUE)

cnf(clause_collection) == construct("Cnf", clause, clause_collection, TRUE)

vertex(positive_int) ==
    IF class(positive_int) = "int"
    THEN IF content(positive_int) <= 0 THEN ValueError ELSE positive_int
    ELSE IF class(positive_int) = "Bool" THEN ValueError
    ELSE TypeError

edge(vertex_collection) ==
    IF falsy(vertex_collection) THEN ValueError
    ELSE IF ~ sized(vertex_collection) THEN TypeError
    ELSE IF len(vertex_collection) > 2 THEN ValueError
    ELSE construct("frozenset", vertex, vertex_collection, FALSE)

graph(edge_collection) == construct("Graph", edge, edge_collection, TRUE)

hedge(vertex_collection) == construct("HEdge", vertex, vertex_collection, TRUE)

hgraph(hedge_collection) == construct("HGraph", hedge, hedge_collection, FALSE)

\* mhgraph on any value: the HEdges are counted from elements() when the
\* value has this attribute, from the iteration otherwise.
mhgraph_of_collection(edge_collection) ==
    IF falsy(edge_collection)
    THEN IF sized(edge_collection) THEN ValueError ELSE TypeError
    ELSE IF ~ sized(edge_collection) THEN TypeError
    ELSE Let(map(hedge, IF has_elements(edge_collection)
                        THEN counter_elements(edge_collection)
                        ELSE iterate(edge_collection)), LAMBDA mapped :
             IF raised(mapped) THEN mapped
             ELSE New("MHGraph", mhgraph(content(mapped))))

\* The values the constructors are called on: scalars, collections of
\* scalars, collections of collections. At most MaxItems elements in a
\* collection of scalars (and one list of MaxItems + 1), at most two in a
\* collection of collections, counts up to MaxCount in a Counter.
MaxItems == 2

MaxCount == 2

IntValues == {New("int", n) : n \in (0 - 1)..MaxVariable}

VertexValues == {New("int", n) : n \in 1..MaxVariable}

BoolValues == {New("Bool", "F"), New("Bool", "T")}

LitValues == {New("Lit", v) : v \in (IntValues \ {New("int", 0)}) \cup BoolValues}

Scalars == IntValues \cup BoolValues \cup LitValues

TuplesUpTo(S, n) == UNION {[1..k -> S] : k \in 0..n}

RECURSIVE SetsUpTo(_, _)
SetsUpTo(S, n) ==
    IF n = 0 THEN {{}}
    ELSE Let(SetsUpTo(S, n - 1), LAMBDA smaller :
             smaller \cup {T \cup {x} : T \in smaller, x \in S})

TuplesUpToPairs(S) ==
    {<< >>} \cup {<<a>> : a \in S} \cup {<<a, b>> : a, b \in S}

SetsUpToPairs(S) == {{}} \cup {{a, b} : a, b \in S}

LongList == New("list", [i \in 1..(MaxItems + 1) |-> New("int", ((i - 1) % MaxVariable) + 1)])

ListValues == {New("list", t) : t \in TuplesUpTo(Scalars, MaxItems)} \cup {LongList}

FrozensetValues == {New("frozenset", T) : T \in SetsUpTo(Scalars, MaxItems)}

ClauseValues == {New("Clause", T) : T \in SetsUpTo(LitValues, MaxItems) \ {{}}}

HEdgeValues == {New("HEdge", T) : T \in SetsUpTo(VertexValues, MaxItems) \ {{}}}

EdgeValues == {New("frozenset", T) : T \in SetsUpTo(VertexValues, MaxItems) \ {{}}}

InnerLists ==
    {New("list", t) : t \in TuplesUpTo(VertexValues \cup {New("int", 0)}, MaxItems)}
    \cup {LongList}

InnerFrozensets ==
    {New("frozenset", T) : T \in SetsUpTo(VertexValues \cup {New("int", 0)}, MaxItems)}

NestedLists ==
    {New("list", t) :
        t \in TuplesUpToPairs(InnerLists \cup InnerFrozensets \cup HEdgeValues
                              \cup ClauseValues)}

\* The elements of a hashed collection are of one class here: a frozenset
\* and a HEdge of the same Vertices are one element to Python.
NestedSets ==
    {New("frozenset", K) : K \in SetsUpToPairs(InnerFrozensets)
                                 \cup SetsUpToPairs(HEdgeValues)
                                 \cup SetsUpToPairs(ClauseValues)}
    \cup {New("HGraph", K) : K \in SetsUpToPairs(HEdgeValues) \ {{}}}
    \cup {New("Graph", K) : K \in SetsUpToPairs(EdgeValues) \ {{}}}
    \cup {New("Cnf", K) : K \in SetsUpToPairs(ClauseValues) \ {{}}}

\* A Counter holds any count; the MHGraphs are those mhgraph returns.
CounterValues ==
    {New("Counter", counts) :
        counts \in UNION {[K -> 0..MaxCount] :
                            K \in SetsUpToPairs(InnerFrozensets)
                                  \cup SetsUpToPairs(HEdgeValues)}}
    \cup {New("MHGraph", counts) :
            counts \in UNION {[K -> 1..MaxCount] :
                                K \in SetsUpToPairs(HEdgeValues) \ {{}}}}

Inputs ==
    Scalars \cup ListValues \cup FrozensetValues \cup ClauseValues
    \cup HEdgeValues \cup NestedLists \cup NestedSets \cup CounterValues

InitConstructor ==
    /\ mhg_ = Loop(1)
    /\ hyperbolic_only = FALSE
    /\ seed = 0
    /\ pc = "idle"
    /\ ret = New("NoneType", "None")
    /\ cache = EmptyCache(maxsize)
    /\ calls = 0
    /\ args \in {[x |-> value] : value \in Inputs}

ConstructVariable ==
    /\ pc = "idle"
    /\ ret' = variable(args.x)
    /\ pc' = "variable"
    /\ UNCHANGED <<mhg_, hyperbolic_only, seed, cache, calls, args>>

ConstructLit ==
    /\ pc = "idle"
    /\ ret' = lit(args.x)
    /\ pc' = "lit"
    /\ UNCHANGED <<mhg_, hyperbolic_only, seed, cache, calls, args>>

ConstructClause ==
    /\ pc = "idle"
    /\ ret' = clause(args.x)
    /\ pc' = "clause"
    /\ UNCHANGED <<mhg_, hyperbolic_only, seed, cache, calls, args>>

ConstructCnf ==
    /\ pc = "idle"
    /\ ret' = cnf(args.x)
    /\ pc' = "cnf"
    /\ UNCHANGED <<mhg_, hyperbolic_only, seed, cache, calls, args>>

ConstructVertex ==
    /\ pc = "idle"
    /\ ret' = vertex(args.x)
    /\ pc' = "vertex"
    /\ UNCHANGED <<mhg_, hyperbolic_only, seed, cache, calls, args>>

ConstructHedge ==
    /\ pc = "idle"
    /\ ret' = hedge(args.x)
    /\ pc' = "hedge"
    /\ UNCHANGED <<mhg_, hyperbolic_only, seed, cache, calls, args>>

ConstructGraph ==
    /\ pc = "idle"
    /\ ret' = graph(args.x)
    /\ pc' = "graph"
    /\ UNCHANGED <<mhg_, hyperbolic_only, seed, cache, calls, args>>

ConstructHgraph ==
    /\ pc = "idle"
    /\ ret' = hgraph(args.x)
    /\ pc' = "hgraph"
    /\ UNCHANGED <<mhg_, hyperbolic_only, seed, cache, calls, args>>

ConstructMhgraph ==
    /\ pc = "idle"
    /\ ret' = mhgraph_of_collection(args.x)
    /\ pc' = "mhgraph"
    /\ UNCHANGED <<mhg_, hyperbolic_only, seed, cache, calls, args>>

NextConstructor ==
    \/ ConstructVariable
    \/ ConstructLit
    \/ ConstructClause
    \/ ConstructCnf
    \/ ConstructVertex
    \/ ConstructHedge
    \/ ConstructGraph
    \/ ConstructHgraph
    \/ ConstructMhgraph

SpecConstructor == InitConstructor /\ [][NextConstructor]_vars

\* The count of key in a Counter, 0 for a key it does not hold.
Count(value, key) ==
    IF key \in DOMAIN content(value) THEN content(value)[key] ELSE 0

\* C19: each of variable, lit, clause, cnf, vertex, hedge, graph, hgraph and
\* mhgraph returns, on a value it has returned, that value again; mhgraph
\* on a MHGraph returns the MHGraph of the same multiplicities.
ConstructorIdempotence ==
    ~ raised(ret) =>
        /\ pc = "variable" => variable(ret) = ret
        /\ pc = "lit" => lit(ret) = ret
        /\ pc = "clause" => clause(ret) = ret
        /\ pc = "cnf" => cnf(ret) = ret
        /\ pc = "vertex" => vertex(ret) = ret
        /\ pc = "hedge" => hedge(ret) = ret
        /\ pc = "graph" => graph(ret) = ret
        /\ pc = "hgraph" => hgraph(ret) = ret
        /\ pc = "mhgraph" => mhgraph_of_collection(ret) = ret
        /\ (pc = "mhgraph" /\ class(args.x) = "MHGraph") =>
              \A key \in DOMAIN content(args.x) \cup DOMAIN content(ret) :
                  Count(ret, key) = Count(args.x, key)

====
